---- MODULE Spec2Model ----
(***************************************************************************)
(* A model of the chuva forecast engine: the event interpreter (Tokenizer  *)
(* and Lexer of moros/src/interpreter.rs), dataset ingestion and the grid  *)
(* projector (chuva/src/lib.rs), the temporal slot and the postcode index  *)
(* lookups (moros/src/chuva.rs).  Each component has a specification of    *)
(* its own over the shared variables; the variables of the other           *)
(* components stay at their idle values.                                   *)
(***************************************************************************)
EXTENDS Integers, Sequences, FiniteSets, TLC

\* ------------------------------------------------------------------ bounds
\* Longest prediction slice the interpreter is run on.
MaxLen == 6
\* Largest intensity value of a slot (0 is dry, anything above is rain).
MaxVal == 1
\* Calls to Lexer::next made after it has returned None.
MaxNoneCalls == 2
\* How far outside the validity window, in seconds, `now` is taken.
MaxSkew == 150
\* Latest creation time of a dataset, in seconds.
MaxCreated == 1
\* The grid the loaders are run on: GridW columns (WIDTH), GridH rows
\* (HEIGHT) and GridSteps forecast steps (STEPS).  Like the product's grid
\* it has more rows than columns.
GridW == 2
GridH == 3
GridSteps == 2
\* Requests served at the same time.
NumTasks == 2
\* Length of the Prediction slices of the engine the requests are served by.
PredLen == 4
\* Longest query string given to parse_qs.
MaxQsLen == 5
\* Connections that arrive at the listener of serve.
MaxConns == 3

\* ------------------------------------------------------- program constants
STEPS == 25
\* jiff::Unit::Minute, in the seconds the model measures time in.
SecPerMinute == 60
\* The validity window of a dataset, in minutes: (0.0..=120.0).
MaxAgeMinutes == 120
\* Members of the ensemble: ENS_SIZE.
ENS_SIZE == 20
\* The rank taken from the sorted members: ens_members[13].
EnsRank == 13
\* 5-minute accumulations per hour: `* 12f32`.
PerHour == 12
\* The largest value of a u16.
U16Max == 65535
\* Minutes per forecast step: age / 5.0.
MinutesPerSlot == 5
\* The grid and the flat dataset.
HEIGHT == 765
WIDTH == 700
MAX_OFFSET == HEIGHT * WIDTH * STEPS - STEPS
\* The coverage rectangle of coords_within_bounds, in microdegrees (the
\* model's unit of latitude and longitude): lon in [0.0, 10.856452941894531),
\* lat in [48.895301818847656, 55.973602294921875).
LonMin == 0
LonMax == 10856453
LatMin == 48895302
LatMax == 55973602
\* Pixel coordinates before the casts are kept in thousandths of a pixel.
MilliPerPixel == 1000

VARIABLES
    \* -------- interpreter.rs: one Lexer over one slice
    preds,        \* the slice the Tokenizer borrows (Tokenizer.preds)
    slot,         \* the start slot given to Lexer::new
    lexPc,        \* "new" before Lexer::new has run, "ready" after;
                  \* "tokenizer" when the Tokenizer is iterated on its own
    tok_pos,      \* Tokenizer.pos
    merge_state,  \* Lexer.merge_state
    stash,        \* Lexer.stash
    out,          \* the Exprs returned by Lexer::next so far, in order
    via,          \* per Expr of out: "stash", "direct" or "flush"
    noneCalls,    \* how many calls of Lexer::next have returned None
    lexPanic,     \* an assertion or an arithmetic check of the Lexer failed
    tokens,       \* the Tokens returned by Tokenizer::next so far, in order
    seededDry,    \* MergeState::new has been called with a Dry token
    \* -------- moros/src/chuva.rs: the temporal slot
    created_at,   \* Model.created_at, in seconds
    now,          \* the `now` of the last get_time_slot call, in seconds
    slotRes,      \* what that call returned
    \* -------- chuva/src/lib.rs: the projector
    lat,          \* the latitude given to the last to_offset call
    lon,          \* the longitude given to it
    transform_ok, \* whether proj4rs's transform returned Ok in that call
    offRes,       \* what the call returned
    xyRes,        \* what a direct call of to_x_y returned
    \* -------- moros/src/chuva.rs: the postcode index and the queries
    fst,          \* Chuva.fst: the entries of the map, in key order
    qKind,        \* the entry point of the last query
    qCode,        \* the code (bytes) that query was given
    qPoint,       \* the point that query was given
    qRes,         \* what it returned
    \* -------- chuva/src/lib.rs: ingestion of a data file
    ingKind,      \* ModelKind of the file
    ingName,      \* the file name given to load_kind
    source,       \* the file: the raw value at <<member, step, row, column>>
    failWhat,     \* what is wrong with the file: "none", "open" (it cannot
                  \* be opened), "group", "variable" (one is missing) or
                  \* "read" (get_values_into fails)
    failAt,       \* the step at which that shows, or -1
    ingStep,      \* the next step to load
    data,         \* the array being filled, in hundredths of mm/h
    ingStatus,    \* "new", "loading", "ok" (a Dataset was returned) or "err"
    loaded,       \* the Chuva load_kind returned, if it returned one
    \* -------- chuva/src/lib.rs: the choice of the data file
    dirEntries,   \* the file names of the entries of the directory
    dirOk,        \* whether read_dir succeeds
    wantKind,     \* the kind asked for: "None", "Simple" or "Ensemble"
    fileRes,      \* what most_recent_data_file returned
    \* -------- moros/src/main.rs: requests served by one engine (State)
    dataset,      \* Model.data, by cell offset: the Prediction slice there
    engine0,      \* the index, created_at and Dataset as initialization left them
    req,          \* per request: where it is, what it asked, what it got
    \* -------- caveman/src/lib.rs: one Parser of a query string
    qsGiven,      \* the input given to parse_qs
    qsInput,      \* Parser.input
    qsDone,       \* Parser.done
    qsItems,      \* the items next() has yielded, each with the input it was
                  \* called on
    qsNone,       \* how many calls of next() have returned None
    \* -------- caveman/src/lib.rs: one call of serve
    svPc,         \* "loop" (accepting), "drain" (second select!), "returned"
    sigReady,     \* the shutdown_signal() future is ready
    listener,     \* the TcpListener is open
    backlog,      \* connections waiting to be accepted
    arrived,      \* connections that have reached the listener
    graceful,     \* graceful.count(): watched connections still running
    spawned,      \* connections handed to handle.spawn so far
    timer,        \* the 5-second sleep has elapsed
    dropped,      \* connections waiting when the listener was dropped
    returnedBy    \* the branch of the second select! serve returned by

lexVars == <<preds, slot, lexPc, tok_pos, merge_state, stash, out, via,
             noneCalls, lexPanic, tokens, seededDry>>

slotVars == <<created_at, now, slotRes>>

projVars == <<lat, lon, transform_ok, offRes, xyRes>>

qryVars == <<fst, qKind, qCode, qPoint, qRes>>

ingVars == <<ingKind, ingName, source, failWhat, failAt, ingStep, data,
             ingStatus, loaded>>

selVars == <<dirEntries, dirOk, wantKind, fileRes>>

srvVars == <<dataset, engine0, req>>

qsVars == <<qsGiven, qsInput, qsDone, qsItems, qsNone>>

shVars == <<svPc, sigReady, listener, backlog, arrived, graceful, spawned,
            timer, dropped, returnedBy>>

vars == <<lexVars, slotVars, projVars, qryVars, ingVars, selVars, srvVars,
          qsVars, shVars>>

\* What the actions of one component leave alone.
notLex == <<slotVars, projVars, qryVars, ingVars, selVars, srvVars, qsVars,
    shVars>>
notSlot == <<lexVars, projVars, qryVars, ingVars, selVars, srvVars, qsVars,
    shVars>>
notProj == <<lexVars, slotVars, qryVars, ingVars, selVars, srvVars, qsVars,
    shVars>>
notQry == <<lexVars, slotVars, projVars, ingVars, selVars, srvVars, qsVars,
    shVars>>
notIng == <<lexVars, slotVars, projVars, qryVars, selVars, srvVars, qsVars,
    shVars>>
notSel == <<lexVars, slotVars, projVars, qryVars, ingVars, srvVars, qsVars,
    shVars>>
notSrv == <<lexVars, projVars, ingVars, selVars, qsVars,
    shVars>>
notQs == <<lexVars, slotVars, projVars, qryVars, ingVars, selVars, srvVars,
    shVars>>
notSh == <<lexVars, slotVars, projVars, qryVars, ingVars, selVars, srvVars,
    qsVars>>

\* ------------------------------------------------------------ small helpers
Min(S) == CHOOSE m \in S : \A o \in S : m <= o

\* All sequences over S of length 0..n.
SeqsUpTo(S, n) == UNION {[1..k -> S] : k \in 0..n}

\* p[i] with the source's 0-based index.
At(p, i) == p[i + 1]

\* --------------------------------------------------------------- Tokenizer
NoneTok == [kind |-> "None", start |-> 0, end |-> 0]

Token(kind, s, e) == [kind |-> kind, start |-> s, end |-> e]

\* A plausible slip: the length is taken one short.
Token_len_one_short(tok) == tok.end - tok.start - 1

Token_len(tok) == tok.end - tok.start

is_dry(tok) == tok.kind = "Dry"

\* .iter().enumerate().skip(from).find(..): the first index >= from whose value
\* is zero (wantZero) or strictly positive (otherwise); Len(p) when none is.
FindFrom(p, from, wantZero) ==
    LET hits == {j \in from..(Len(p) - 1) :
                    IF wantZero THEN At(p, j) = 0 ELSE At(p, j) > 0}
    IN  IF hits = {} THEN Len(p) ELSE Min(hits)

\* A plausible slip: a run is cut after its first slot.
Tokenizer_next_one_slot(pos, p) ==
    IF pos >= Len(p)
    THEN [tok |-> NoneTok, pos |-> pos]
    ELSE [tok |-> Token(IF At(p, pos) > 0 THEN "Rain" ELSE "Dry", pos, pos + 1),
          pos |-> pos + 1]

\* Tokenizer::next: the token returned and the new pos.
Tokenizer_next(pos, p) ==
    IF pos >= Len(p)
    THEN [tok |-> NoneTok, pos |-> pos]
    ELSE IF At(p, pos) > 0
         THEN LET end == FindFrom(p, pos + 1, TRUE)
              IN  [tok |-> Token("Rain", pos, end), pos |-> end]
         ELSE LET end == FindFrom(p, pos + 1, FALSE)
              IN  [tok |-> Token("Dry", pos, end), pos |-> end]

\* -------------------------------------------------------------- MergeState
NoneMS == [some |-> FALSE, start |-> 0, end |-> 0, num_gaps |-> 0,
           last_was_dry |-> FALSE]

MergeState_new(tok) ==
    [some |-> TRUE, start |-> tok.start, end |-> tok.end,
     num_gaps |-> IF is_dry(tok) THEN 1 ELSE 0, last_was_dry |-> FALSE]

\* A plausible slip: a merged Dry token is remembered but not counted.
merge_forgets_gap(ms, tok) ==
    [ms EXCEPT !.last_was_dry = is_dry(tok), !.end = tok.end]

\* A plausible slip: the end of the accumulated range is not moved.
merge_keeps_end(ms, tok) ==
    [ms EXCEPT !.last_was_dry = is_dry(tok),
               !.num_gaps = IF is_dry(tok) THEN ms.num_gaps + 1 ELSE ms.num_gaps]

merge(ms, tok) ==
    [ms EXCEPT !.last_was_dry = is_dry(tok),
               !.num_gaps = IF is_dry(tok) THEN ms.num_gaps + 1 ELSE ms.num_gaps,
               !.end = tok.end]

\* A plausible slip: the separated slot is given back but still counted.
undo_last_dry_merge_keeps_gap(ms) ==
    IF ms.last_was_dry
    THEN [undone |-> TRUE, panic |-> FALSE,
          ms |-> [ms EXCEPT !.last_was_dry = FALSE, !.end = ms.end - 1],
          dry |-> Token("Dry", ms.end - 1, ms.end)]
    ELSE [undone |-> FALSE, panic |-> FALSE, ms |-> ms, dry |-> NoneTok]

\* A plausible slip: nothing is given back at the end of the stream.
undo_last_dry_merge_never(ms) ==
    [undone |-> FALSE, panic |-> FALSE, ms |-> ms, dry |-> NoneTok]

\* MergeState::undo_last_dry_merge: the state after it, the Dry token it
\* returns (undone), and whether one of its two subtractions underflows.
undo_last_dry_merge(ms) ==
    IF ms.last_was_dry
    THEN [undone |-> TRUE,
          panic |-> (ms.num_gaps = 0 \/ ms.end = 0),
          ms |-> [ms EXCEPT !.num_gaps = ms.num_gaps - 1,
                            !.last_was_dry = FALSE,
                            !.end = ms.end - 1],
          dry |-> Token("Dry", ms.end - 1, ms.end)]
    ELSE [undone |-> FALSE, panic |-> FALSE, ms |-> ms, dry |-> NoneTok]

\* ---------------------------------------------------------------------- Expr
NoneExpr == [kind |-> "None", start |-> 0, end |-> 0, gaps |-> 0]

Expr(kind, s, e, g) == [kind |-> kind, start |-> s, end |-> e, gaps |-> g]

\* From<Token> for Expr and From<CopyToken> for Expr.
Expr_from(tok) == Expr(tok.kind, tok.start, tok.end, 0)

\* A plausible slip: the gaps are looked at before the length.
into_expr_gaps_first(ms) ==
    IF ms.num_gaps = 0
    THEN Expr("Rain", ms.start, ms.end, 0)
    ELSE Expr("Showers", ms.start, ms.end, ms.num_gaps)

into_expr(ms) ==
    IF ms.end - ms.start = 1
    THEN IF ms.num_gaps = 1
         THEN Expr("Dry", ms.start, ms.end, 0)
         ELSE Expr("Rain", ms.start, ms.end, 0)
    ELSE IF ms.num_gaps = 0
         THEN Expr("Rain", ms.start, ms.end, 0)
         ELSE Expr("Showers", ms.start, ms.end, ms.num_gaps)

\* -------------------------------------------------------------------- Lexer
\* A plausible slip: the first token seeds the accumulator whatever it is.
Lexer_from_tokenizer_no_stash(pos, p) ==
    LET t == Tokenizer_next(pos, p)
    IN  [pos |-> t.pos,
         stash |-> NoneTok,
         ms |-> IF t.tok.kind # "None" THEN MergeState_new(t.tok) ELSE NoneMS,
         seeded_dry |-> is_dry(t.tok)]

\* Lexer::from_tokenizer: the first token is taken; a Dry one is stashed, a
\* Rain one seeds the accumulator.
Lexer_from_tokenizer(pos, p) ==
    LET t == Tokenizer_next(pos, p)
    IN  [pos |-> t.pos,
         stash |-> IF t.tok.kind # "None" /\ is_dry(t.tok) THEN t.tok ELSE NoneTok,
         ms |-> IF t.tok.kind # "None" /\ ~is_dry(t.tok)
                THEN MergeState_new(t.tok) ELSE NoneMS,
         seeded_dry |-> FALSE]

LexRet(ret, how, pos, ms, st, panic, seeded) ==
    [ret |-> ret, via |-> how, pos |-> pos, ms |-> ms, stash |-> st,
     panic |-> panic, seeded_dry |-> seeded]

\* A plausible slip: the accumulator is read, not taken, when it is flushed
\* at the end of the stream.
Lexer_after_loop_not_taken(pos, ms, st, seeded) ==
    LexRet(IF ms.some THEN into_expr(ms) ELSE NoneExpr,
           IF ms.some THEN "flush" ELSE "none",
           pos, ms, st, st.kind # "None", seeded)

\* The part of Lexer::next after the token loop has run dry.
Lexer_after_loop(pos, ms, st, seeded) ==
    LET a1 == st.kind = "None"      \* assert!(self.stash.is_none())
        u  == undo_last_dry_merge(ms)
    IN  IF ms.some /\ u.undone
        THEN LexRet(into_expr(u.ms), "flush", pos, NoneMS, u.dry,
                    ~a1 \/ u.panic, seeded)
        ELSE \* the second assert reads the same stash as the first
             LexRet(IF ms.some THEN into_expr(ms) ELSE NoneExpr,
                    IF ms.some THEN "flush" ELSE "none",
                    pos, NoneMS, st, ~a1, seeded)

\* A plausible slip: every Dry token ends the merging, a single slot too.
RECURSIVE Lexer_loop_any_dry(_, _, _, _)
Lexer_loop_any_dry(p, pos, ms, seeded) ==
    LET t == Tokenizer_next(pos, p)
    IN  IF t.tok.kind = "None"
        THEN Lexer_after_loop(t.pos, ms, NoneTok, seeded)
        ELSE IF is_dry(t.tok)
             THEN IF ms.some
                  THEN LexRet(into_expr(ms), "flush", t.pos, NoneMS, t.tok,
                              FALSE, seeded)
                  ELSE LexRet(Expr_from(t.tok), "direct", t.pos, NoneMS,
                              NoneTok, FALSE, seeded)
             ELSE IF ms.some
                  THEN Lexer_loop_any_dry(p, t.pos, merge(ms, t.tok), seeded)
                  ELSE Lexer_loop_any_dry(p, t.pos, MergeState_new(t.tok),
                                          seeded \/ is_dry(t.tok))

\* The `for tok in &mut self.src` loop of Lexer::next, from (pos, ms) on.
RECURSIVE Lexer_loop(_, _, _, _)
Lexer_loop(p, pos, ms, seeded) ==
    LET t == Tokenizer_next(pos, p)
    IN  IF t.tok.kind = "None"
        THEN Lexer_after_loop(t.pos, ms, NoneTok, seeded)
        ELSE IF is_dry(t.tok) /\ Token_len(t.tok) > 1
             THEN IF ms.some
                  THEN LexRet(into_expr(ms), "flush", t.pos, NoneMS, t.tok,
                              FALSE, seeded)
                  ELSE LexRet(Expr_from(t.tok), "direct", t.pos, NoneMS,
                              NoneTok, FALSE, seeded)
             ELSE IF ms.some
                  THEN Lexer_loop(p, t.pos, merge(ms, t.tok), seeded)
                  ELSE Lexer_loop(p, t.pos, MergeState_new(t.tok),
                                  seeded \/ is_dry(t.tok))

\* Lexer::next on the Lexer (pos, ms, st) over slice p.
Lexer_next(p, pos, ms, st) ==
    IF st.kind # "None"
    THEN LexRet(Expr_from(st), "stash", pos, ms, NoneTok, FALSE, FALSE)
    ELSE Lexer_loop(p, pos, ms, FALSE)

\* ------------------------------------------------------- Lexer: the machine
LexStart ==
    /\ preds \in SeqsUpTo(0..MaxVal, MaxLen)
    /\ slot \in 0..MaxLen
    /\ lexPc = "new"
    /\ tok_pos = slot
    /\ merge_state = NoneMS
    /\ stash = NoneTok
    /\ out = <<>>
    /\ via = <<>>
    /\ noneCalls = 0
    /\ lexPanic = FALSE
    /\ tokens = <<>>
    /\ seededDry = FALSE

\* Lexer::new(slot, src)
LexerNew ==
    /\ lexPc = "new"
    /\ LET r == Lexer_from_tokenizer(slot, preds)
       IN  /\ tok_pos' = r.pos
           /\ merge_state' = r.ms
           /\ stash' = r.stash
           /\ seededDry' = r.seeded_dry
    /\ lexPc' = "ready"
    /\ UNCHANGED <<preds, slot, out, via, noneCalls, lexPanic, tokens>>
    /\ UNCHANGED notLex

\* One call of Lexer::next (Iterator::next).
LexerNext ==
    /\ lexPc = "ready"
    /\ ~lexPanic
    /\ noneCalls < MaxNoneCalls
    /\ LET r == Lexer_next(preds, tok_pos, merge_state, stash)
       IN  /\ tok_pos' = r.pos
           /\ merge_state' = r.ms
           /\ stash' = r.stash
           /\ lexPanic' = r.panic
           /\ seededDry' = (seededDry \/ r.seeded_dry)
           /\ IF r.ret.kind = "None"
              THEN /\ noneCalls' = noneCalls + 1
                   /\ UNCHANGED <<out, via>>
              ELSE /\ out' = Append(out, r.ret)
                   /\ via' = Append(via, r.via)
                   /\ UNCHANGED noneCalls
    /\ UNCHANGED <<preds, slot, lexPc, tokens>>
    /\ UNCHANGED notLex

\* Tokenizer::new(pos, preds)
TokStart ==
    /\ preds \in SeqsUpTo(0..MaxVal, MaxLen)
    /\ slot \in 0..MaxLen
    /\ lexPc = "tokenizer"
    /\ tok_pos = slot
    /\ merge_state = NoneMS
    /\ stash = NoneTok
    /\ out = <<>>
    /\ via = <<>>
    /\ noneCalls = 0
    /\ lexPanic = FALSE
    /\ tokens = <<>>
    /\ seededDry = FALSE

\* One call of Tokenizer::next (Iterator::next).
TokenizerNext ==
    /\ lexPc = "tokenizer"
    /\ noneCalls < MaxNoneCalls
    /\ LET r == Tokenizer_next(tok_pos, preds)
       IN  /\ tok_pos' = r.pos
           /\ IF r.tok.kind = "None"
              THEN /\ noneCalls' = noneCalls + 1
                   /\ UNCHANGED tokens
              ELSE /\ tokens' = Append(tokens, r.tok)
                   /\ UNCHANGED noneCalls
    /\ UNCHANGED <<preds, slot, lexPc, merge_state, stash, out, via, lexPanic,
                   seededDry>>
    /\ UNCHANGED notLex

\* A MergeState of any range and gap count, about to be flushed.
FlushStart ==
    /\ preds = <<>>
    /\ slot = 0
    /\ lexPc = "into_expr"
    /\ tok_pos = 0
    /\ merge_state \in
          { [some |-> TRUE, start |-> st, end |-> en, num_gaps |-> g,
             last_was_dry |-> d] :
              st \in 0..MaxLen, en \in 0..MaxLen, g \in 0..MaxLen,
              d \in BOOLEAN }
    /\ merge_state.start <= merge_state.end
    /\ stash = NoneTok
    /\ out = <<>>
    /\ via = <<>>
    /\ noneCalls = 0
    /\ lexPanic = FALSE
    /\ tokens = <<>>
    /\ seededDry = FALSE

\* MergeState::into_expr(self), on a copy of the MergeState.
IntoExpr ==
    /\ lexPc = "into_expr"
    /\ out = <<>>
    /\ out' = <<into_expr(merge_state)>>
    /\ via' = <<"flush">>
    /\ UNCHANGED <<preds, slot, lexPc, tok_pos, merge_state, stash, noneCalls,
                   lexPanic, tokens, seededDry>>
    /\ UNCHANGED notLex

\* No Lexer exists.
LexIdle ==
    /\ preds = <<>>
    /\ slot = 0
    /\ lexPc = "idle"
    /\ tok_pos = 0
    /\ merge_state = NoneMS
    /\ stash = NoneTok
    /\ out = <<>>
    /\ via = <<>>
    /\ noneCalls = 0
    /\ lexPanic = FALSE
    /\ tokens = <<>>
    /\ seededDry = FALSE

\* ------------------------------------------------------------ temporal slot
\* `as i64` / `as usize` of a quotient of two integers: truncation toward 0.
TruncDiv(a, b) == IF a >= 0 THEN a \div b ELSE -((-a) \div b)

SlotOk(s, panic) == [ok |-> TRUE, val |-> s, panic |-> panic]

SlotErr(minutes) == [ok |-> FALSE, val |-> minutes, panic |-> FALSE]

\* A plausible slip: the slot is rounded to the nearest step, not truncated.
get_time_slot_rounds(created, t) ==
    LET ageSec == t - created
    IN  IF ~(0 <= ageSec /\ ageSec <= MaxAgeMinutes * SecPerMinute)
        THEN SlotErr(TruncDiv(ageSec, SecPerMinute))
        ELSE LET s == TruncDiv(2 * ageSec + MinutesPerSlot * SecPerMinute,
                               2 * MinutesPerSlot * SecPerMinute)
             IN  SlotOk(s, ~(s < STEPS))

\* A plausible slip: the window is 0.0..120.0, without its upper end.
get_time_slot_exclusive(created, t) ==
    LET ageSec == t - created
    IN  IF ~(0 <= ageSec /\ ageSec < MaxAgeMinutes * SecPerMinute)
        THEN SlotErr(TruncDiv(ageSec, SecPerMinute))
        ELSE LET s == TruncDiv(ageSec, MinutesPerSlot * SecPerMinute)
             IN  SlotOk(s, ~(s < STEPS))

\* get_time_slot(created_at, now), with both timestamps in seconds.  The age
\* is the f64 number of minutes ageSec / 60; it lies in 0.0..=120.0 exactly
\* when 0 <= ageSec <= 120 * 60.  Ok carries the slot and whether
\* assert!(slot < STEPS) failed, Err carries `age as i64`.
get_time_slot(created, t) ==
    LET ageSec == t - created
    IN  IF ~(0 <= ageSec /\ ageSec <= MaxAgeMinutes * SecPerMinute)
        THEN SlotErr(TruncDiv(ageSec, SecPerMinute))
        ELSE LET s == TruncDiv(ageSec, MinutesPerSlot * SecPerMinute)
             IN  SlotOk(s, ~(s < STEPS))

NoSlotRes == [ok |-> FALSE, val |-> 0, panic |-> FALSE]

\* The first call is made MaxSkew seconds before the dataset's creation time.
SlotStart ==
    /\ created_at \in 0..MaxCreated
    /\ now = created_at - MaxSkew
    /\ slotRes = get_time_slot(created_at, now)

\* How far the clock has moved on between two calls, in seconds.
ClockSteps == {1, SecPerMinute, MinutesPerSlot * SecPerMinute}

SlotIdle ==
    /\ created_at = 0
    /\ now = 0
    /\ slotRes = NoSlotRes

\* Chuva::get_time_slot(now) at a later instant, up to MaxSkew seconds past
\* the validity window.
GetTimeSlot ==
    /\ \E d \in ClockSteps :
          /\ now + d <= created_at + MaxAgeMinutes * SecPerMinute + MaxSkew
          /\ now' = now + d
          /\ slotRes' = get_time_slot(created_at, now + d)
    /\ UNCHANGED created_at
    /\ UNCHANGED notSlot

\* ---------------------------------------------------------------- Projector
\* An f64 coordinate: a finite number of microdegrees, or NaN, or an infinity.
Fin(v) == [cls |-> "fin", v |-> v]
NaN == [cls |-> "nan", v |-> 0]
PosInf == [cls |-> "inf", v |-> 0]
NegInf == [cls |-> "ninf", v |-> 0]

is_finite(f) == f.cls = "fin"

\* f >= c and f < c for a finite constant c: false on NaN.
f_ge(f, c) == f.cls = "inf" \/ (f.cls = "fin" /\ f.v >= c)
f_lt(f, c) == f.cls = "ninf" \/ (f.cls = "fin" /\ f.v < c)

coords_within_bounds(la, lo) ==
    /\ is_finite(lo)
    /\ f_ge(lo, LonMin)
    /\ f_lt(lo, LonMax)
    /\ is_finite(la)
    /\ f_ge(la, LatMin)
    /\ f_lt(la, LatMax)

\* The f64 pair (x, y) of to_x_y before its casts, in thousandths of a pixel,
\* for the sampled coordinates <<lat, lon>> inside the coverage rectangle:
\* the polar-stereographic forward projection (lat_0=90, lon_0=0, lat_ts=60,
\* a=6378137, b=6356752, km) followed by x = c0*size_x + size_x/2 and
\* y = (row_offset + c1)*size_y + size_y/2.  The row of 48895302 is that
\* of the bound 48.895301818847656 itself.
PixelTable ==
       <<48895302, 0>> :> <<500, 819670>>
    @@ <<48895302, 3000000>> :> <<234450, 813544>>
    @@ <<48895302, 4873000>> :> <<380229, 803512>>
    @@ <<48895302, 7000000>> :> <<545276, 786350>>
    @@ <<48895302, 9000000>> :> <<699788, 764635>>
    @@ <<48895302, 9009300>> :> <<700504, 764521>>
    @@ <<48895302, 10000000>> :> <<776736, 751758>>
    @@ <<48895302, 10850000>> :> <<841957, 739758>>
    @@ <<48900000, 0>> :> <<500, 819114>>
    @@ <<48900000, 3000000>> :> <<234421, 812988>>
    @@ <<48900000, 4873000>> :> <<380182, 802958>>
    @@ <<48900000, 7000000>> :> <<545208, 785798>>
    @@ <<48900000, 9000000>> :> <<699701, 764085>>
    @@ <<48900000, 9009300>> :> <<700417, 763972>>
    @@ <<48900000, 10000000>> :> <<776639, 751210>>
    @@ <<48900000, 10850000>> :> <<841852, 739212>>
    @@ <<49362064, 0>> :> <<500, 764521>>
    @@ <<49362064, 3000000>> :> <<231564, 758470>>
    @@ <<49362064, 4873000>> :> <<375544, 748562>>
    @@ <<49362064, 7000000>> :> <<538555, 731612>>
    @@ <<49362064, 9000000>> :> <<691160, 710164>>
    @@ <<49362064, 9009300>> :> <<691868, 710052>>
    @@ <<49362064, 10000000>> :> <<767159, 697447>>
    @@ <<49362064, 10850000>> :> <<831575, 685595>>
    @@ <<50000000, 0>> :> <<500, 689407>>
    @@ <<50000000, 3000000>> :> <<227633, 683459>>
    @@ <<50000000, 4873000>> :> <<369163, 673720>>
    @@ <<50000000, 7000000>> :> <<529401, 657058>>
    @@ <<50000000, 9000000>> :> <<679410, 635976>>
    @@ <<50000000, 9009300>> :> <<680106, 635865>>
    @@ <<50000000, 10000000>> :> <<754116, 623474>>
    @@ <<50000000, 10850000>> :> <<817436, 611824>>
    @@ <<52325000, 0>> :> <<500, 418098>>
    @@ <<52325000, 3000000>> :> <<213434, 412522>>
    @@ <<52325000, 4873000>> :> <<346116, 403392>>
    @@ <<52325000, 7000000>> :> <<496337, 387771>>
    @@ <<52325000, 9000000>> :> <<636968, 368007>>
    @@ <<52325000, 9009300>> :> <<637620, 367903>>
    @@ <<52325000, 10000000>> :> <<707004, 356287>>
    @@ <<52325000, 10850000>> :> <<766365, 345365>>
    @@ <<54000000, 0>> :> <<500, 224896>>
    @@ <<54000000, 3000000>> :> <<203322, 219585>>
    @@ <<54000000, 4873000>> :> <<329704, 210888>>
    @@ <<54000000, 7000000>> :> <<472791, 196009>>
    @@ <<54000000, 9000000>> :> <<606745, 177183>>
    @@ <<54000000, 9009300>> :> <<607366, 177085>>
    @@ <<54000000, 10000000>> :> <<673454, 166020>>
    @@ <<54000000, 10850000>> :> <<729997, 155617>>
    @@ <<55388973, 0>> :> <<500, 66031>>
    @@ <<55388973, 3000000>> :> <<195008, 60938>>
    @@ <<55388973, 4873000>> :> <<316209, 52598>>
    @@ <<55388973, 7000000>> :> <<453431, 38329>>
    @@ <<55388973, 9000000>> :> <<581893, 20275>>
    @@ <<55388973, 9009300>> :> <<582489, 20180>>
    @@ <<55388973, 10000000>> :> <<645868, 9569>>
    @@ <<55388973, 10850000>> :> <<700093, -408>>
    @@ <<55900000, 0>> :> <<500, 7877>>
    @@ <<55900000, 3000000>> :> <<191964, 2863>>
    @@ <<55900000, 4873000>> :> <<311269, -5347>>
    @@ <<55900000, 7000000>> :> <<446343, -19392>>
    @@ <<55900000, 9000000>> :> <<572795, -37164>>
    @@ <<55900000, 9009300>> :> <<573382, -37257>>
    @@ <<55900000, 10000000>> :> <<635769, -47702>>
    @@ <<55900000, 10850000>> :> <<689146, -57523>>
    @@ <<55970000, 0>> :> <<500, -77>>
    @@ <<55970000, 3000000>> :> <<191548, -5080>>
    @@ <<55970000, 4873000>> :> <<310593, -13272>>
    @@ <<55970000, 7000000>> :> <<445374, -27287>>
    @@ <<55970000, 9000000>> :> <<571551, -45020>>
    @@ <<55970000, 9009300>> :> <<572136, -45113>>
    @@ <<55970000, 10000000>> :> <<634388, -55535>>
    @@ <<55970000, 10850000>> :> <<687649, -65335>>

\* The same pair for points on the upper edges of the rectangle, which
\* coords_within_bounds leaves out: the published corners (0, 55.9736...)
\* and (10.8564..., 55.3889...), and three more points of longitude
\* 10.856452941894531.
EdgePixels ==
       <<55973602, 0>> :> <<500, -487>>
    @@ <<55388973, 10856453>> :> <<700504, -487>>
    @@ <<55973602, 10856453>> :> <<687976, -65814>>
    @@ <<48895302, 10856453>> :> <<842451, 739663>>
    @@ <<52325000, 10856453>> :> <<766815, 345279>>

Pixels == PixelTable @@ EdgePixels

\* `v as usize` of an f64: saturating, so a negative value gives 0; the
\* fraction is dropped.  In and out in thousandths and whole pixels.
as_usize(milli) == IF milli < 0 THEN 0 ELSE milli \div MilliPerPixel

\* f64::round: to the nearest whole number, halves away from zero.  In and
\* out in thousandths.
f64_round(milli) ==
    IF milli >= 0
    THEN ((2 * milli + MilliPerPixel) \div (2 * MilliPerPixel)) * MilliPerPixel
    ELSE -(((2 * (-milli) + MilliPerPixel) \div (2 * MilliPerPixel))
            * MilliPerPixel)

NoneXY == [some |-> FALSE, x |-> 0, y |-> 0]

\* A plausible slip: y is cast without being rounded first.
to_x_y_unrounded(la, lo, ok) ==
    IF ~ok
    THEN NoneXY
    ELSE LET p == Pixels[<<la.v, lo.v>>]
         IN  [some |-> TRUE, x |-> as_usize(p[1]), y |-> as_usize(p[2])]

\* Projector::to_x_y; ok is whether the transform succeeded.
to_x_y(la, lo, ok) ==
    IF ~ok
    THEN NoneXY
    ELSE LET p == Pixels[<<la.v, lo.v>>]
         IN  [some |-> TRUE, x |-> as_usize(p[1]), y |-> as_usize(f64_round(p[2]))]

\* A plausible slip: the rows are taken as the major axis, HEIGHT apart.
cell_offset_by_rows(x, y) == (y * HEIGHT + x) * STEPS

\* (x * WIDTH + y) * STEPS
cell_offset(x, y) == (x * WIDTH + y) * STEPS

NoneOff == [some |-> FALSE, offset |-> 0, panic |-> FALSE]

\* Projector::to_offset: the offset returned, and whether
\* assert!(offset <= MAX_OFFSET) failed.
to_offset(la, lo, ok) ==
    IF ~coords_within_bounds(la, lo)
    THEN NoneOff
    ELSE LET xy == to_x_y(la, lo, ok)
         IN  IF ~xy.some
             THEN NoneOff
             ELSE IF xy.x < WIDTH /\ xy.y < HEIGHT
                  THEN LET offset == cell_offset(xy.x, xy.y)
                       IN  [some |-> TRUE, offset |-> offset,
                            panic |-> ~(offset <= MAX_OFFSET)]
                  ELSE NoneOff

\* The sampled latitudes and longitudes inside the coverage rectangle.
LatInside == {k[1] : k \in DOMAIN PixelTable}
LonInside == {k[2] : k \in DOMAIN PixelTable}

\* The coordinates to_offset is called with: the samples inside the
\* rectangle, points on and beyond its edges, and the non-finite values.
LatSamples ==
    {Fin(v) : v \in LatInside \cup {48000000, LatMax, 90000000}}
        \cup {NaN, PosInf, NegInf}
LonSamples ==
    {Fin(v) : v \in LonInside \cup {-1000000, LonMax, 11000000}}
        \cup {NaN, PosInf, NegInf}

\* The state after a first call, to_offset(0.0, 0.0).
ProjStart ==
    /\ lat = Fin(0)
    /\ lon = Fin(0)
    /\ transform_ok = TRUE
    /\ offRes = to_offset(lat, lon, transform_ok)
    /\ xyRes = NoneXY

ProjIdle ==
    /\ lat = Fin(0)
    /\ lon = Fin(0)
    /\ transform_ok = TRUE
    /\ offRes = NoneOff
    /\ xyRes = NoneXY

\* Projector::to_offset(lat, lon)
ToOffset ==
    /\ \E la \in LatSamples, lo \in LonSamples, ok \in BOOLEAN :
          /\ lat' = la
          /\ lon' = lo
          /\ transform_ok' = ok
          /\ offRes' = to_offset(la, lo, ok)
    /\ UNCHANGED xyRes
    /\ UNCHANGED notProj

\* The state after a first direct call, to_x_y of the first corner.
XYStart ==
    /\ lat = Fin(49362064)
    /\ lon = Fin(0)
    /\ transform_ok = TRUE
    /\ offRes = NoneOff
    /\ xyRes = to_x_y(lat, lon, transform_ok)

\* Projector::to_x_y(lat, lon), called directly.
ToXY ==
    /\ \E k \in DOMAIN Pixels, ok \in BOOLEAN :
          /\ lat' = Fin(k[1])
          /\ lon' = Fin(k[2])
          /\ transform_ok' = ok
          /\ xyRes' = to_x_y(Fin(k[1]), Fin(k[2]), ok)
    /\ UNCHANGED offRes
    /\ UNCHANGED notProj

\* ------------------------------------------------------------ postcode index
\* The bytes of the characters the sampled codes are written with.
Ascii ==
       "0" :> 48 @@ "1" :> 49 @@ "2" :> 50 @@ "3" :> 51 @@ "4" :> 52
    @@ "5" :> 53 @@ "6" :> 54 @@ "7" :> 55 @@ "8" :> 56 @@ "9" :> 57
    @@ "+" :> 43 @@ "A" :> 65 @@ "B" :> 66 @@ "C" :> 67 @@ "E" :> 69
    @@ "Z" :> 90 @@ "a" :> 97 @@ "b" :> 98 @@ "c" :> 99 @@ "e" :> 101
    @@ "z" :> 122
    @@ "." :> 46 @@ "_" :> 95 @@ "D" :> 68 @@ "F" :> 70 @@ "I" :> 73
    @@ "K" :> 75 @@ "L" :> 76 @@ "M" :> 77 @@ "N" :> 78 @@ "P" :> 80
    @@ "R" :> 82 @@ "S" :> 83 @@ "T" :> 84 @@ "Y" :> 89 @@ "h" :> 104
    @@ "n" :> 110 @@ "t" :> 116 @@ "x" :> 120 @@ "=" :> 61 @@ "&" :> 38

\* str::as_bytes of a string given character by character.
Bytes(chars) == [i \in 1..Len(chars) |-> Ascii[chars[i]]]

\* u8::to_ascii_uppercase
to_ascii_uppercase(b) == IF b >= 97 /\ b <= 122 THEN b - 32 ELSE b

\* The order of byte strings (Ord for [u8]): a < b.
RECURSIVE BytesLess(_, _)
BytesLess(a, b) ==
    IF b = <<>> THEN FALSE
    ELSE IF a = <<>> THEN TRUE
    ELSE IF Head(a) # Head(b) THEN Head(a) < Head(b)
    ELSE BytesLess(Tail(a), Tail(b))

\* The entries of S in increasing key order (values.sort_by, then insert).
RECURSIVE SortedEntries(_)
SortedEntries(S) ==
    IF S = {} THEN <<>>
    ELSE LET first == CHOOSE e \in S :
                        \A o \in S \ {e} : BytesLess(e.key, o.key)
         IN  <<first>> \o SortedEntries(S \ {first})

\* The postcodes the index is built from: the pc6 name and the point (lat,
\* lon in microdegrees) read from its geometry.
PostcodePool ==
    { [name |-> Bytes(<<"1", "0", "1", "7", "A", "B">>),
       lat |-> 52325000, lon |-> 4873000],
      [name |-> Bytes(<<"1", "0", "1", "7", "C", "E">>),
       lat |-> 52325000, lon |-> 7000000],
      [name |-> Bytes(<<"1", "0", "1", "8", "A", "A">>),
       lat |-> 54000000, lon |-> 3000000],
      [name |-> Bytes(<<"2", "5", "1", "1", "A", "B">>),
       lat |-> 50000000, lon |-> 9000000],
      [name |-> Bytes(<<"9", "9", "9", "9", "Z", "Z">>),
       lat |-> 48900000, lon |-> 9000000] }

\* postcode-fst's main: each postcode is given the offset of its point
\* (to_offset(..).expect(..)), the pairs are sorted by name and inserted.
BuildFst(postcodes) ==
    SortedEntries({ [key |-> pc.name,
                     value |-> to_offset(Fin(pc.lat), Fin(pc.lon), TRUE).offset]
                    : pc \in postcodes })

\* --- AsciiUpperCase: its state is Some(pos), or None written as -1.
AUC_start == 0

AUC_is_match(input, state) == state = Len(input)

\* A plausible slip: the input byte is compared as it is.
AUC_accept_case_sensitive(input, state, byte) ==
    IF state = -1 THEN -1
    ELSE IF state >= Len(input) THEN -1
    ELSE IF input[state + 1] = byte THEN state + 1 ELSE -1

AUC_accept(input, state, byte) ==
    IF state = -1 THEN -1
    ELSE IF state >= Len(input) THEN -1
    ELSE IF to_ascii_uppercase(input[state + 1]) = byte THEN state + 1 ELSE -1

\* --- Automaton::starts_with() over AsciiUpperCase: Done, or Running(s).
SW_state(s, input) ==
    IF AUC_is_match(input, s) THEN [done |-> TRUE, s |-> 0]
    ELSE [done |-> FALSE, s |-> s]

SW_start(input) == SW_state(AUC_start, input)

SW_accept(input, st, byte) ==
    IF st.done THEN st ELSE SW_state(AUC_accept(input, st.s, byte), input)

SW_is_match(st) == st.done

\* The state the automaton is in after the bytes of key.
RECURSIVE SW_run(_, _, _)
SW_run(input, st, key) ==
    IF key = <<>> THEN st
    ELSE SW_run(input, SW_accept(input, st, Head(key)), Tail(key))

NoEntry == [some |-> FALSE, key |-> <<>>, value |-> 0]

SomeEntry(e) == [some |-> TRUE, key |-> e.key, value |-> e.value]

\* stream.next(): the first entry of the stream, which yields the entries
\* of m at the indexes hits in key order.
first_of(m, hits) == IF hits = {} THEN NoEntry ELSE SomeEntry(m[Min(hits)])

\* fst.search(AsciiUpperCase::new(code).starts_with()).into_stream().next()
search_first(m, code) ==
    first_of(m, {i \in 1..Len(m) :
                    SW_is_match(SW_run(code, SW_start(code), m[i].key))})

\* A plausible slip: the bound is compared with the key cut to its length,
\* so a key that only extends the bound is not greater than it.
range_gt_first_cut(m, code) ==
    first_of(m, {i \in 1..Len(m) :
                    BytesLess(code,
                              SubSeq(m[i].key, 1, Min({Len(m[i].key), Len(code)})))})

\* fst.range().gt(code).into_stream().next()
range_gt_first(m, code) ==
    first_of(m, {i \in 1..Len(m) : BytesLess(code, m[i].key)})

\* ------------------------------------------------------------------ queries
\* What a query returns: None, or the view data[start..start + len] (and the
\* key it was found under); panic when the call aborted instead.
NoneView == [some |-> FALSE, key |-> <<>>, start |-> 0, len |-> 0,
             panic |-> FALSE, from |-> "none"]

View(key, start, panic, from) ==
    [some |-> ~panic, key |-> key, start |-> start, len |-> STEPS,
     panic |-> panic, from |-> from]

\* moros Chuva::by_offset: assert!(offset <= MAX_OFFSET), then the slice
\* data[offset..offset + STEPS].
by_offset(key, offset, from) == View(key, offset, ~(offset <= MAX_OFFSET), from)

\* moros Chuva::by_lat_lon
by_lat_lon(la, lo, ok) ==
    LET o == to_offset(la, lo, ok)
    IN  IF o.panic THEN View(<<>>, o.offset, TRUE, "by_lat_lon")
        ELSE IF ~o.some THEN NoneView
        ELSE by_offset(<<>>, o.offset, "by_lat_lon")

\* moros Chuva::by_postcode
by_postcode(m, code) ==
    LET e == search_first(m, code)
    IN  IF ~e.some THEN NoneView ELSE by_offset(e.key, e.value, "by_postcode")

\* moros Chuva::by_postcode4
by_postcode4(m, code) ==
    LET e == range_gt_first(m, code)
    IN  IF ~e.some THEN NoneView
        ELSE IF Len(e.key) # 6      \* assert_eq!(6, key.len(), "key is pc6")
        THEN View(e.key, e.value, TRUE, "by_postcode4")
        ELSE IF SubSeq(e.key, 1, 4) = code
        THEN by_offset(e.key, e.value, "by_postcode4")
        ELSE NoneView

\* str::parse::<usize>: Some(n) for an optional '+' and one or more decimal
\* digits, None for anything else.
RECURSIVE DigitsValue(_, _)
DigitsValue(digits, acc) ==
    IF digits = <<>> THEN acc
    ELSE DigitsValue(Tail(digits), 10 * acc + (Head(digits) - 48))

parse_usize(code) ==
    LET digits == IF code # <<>> /\ Head(code) = 43 THEN Tail(code) ELSE code
    IN  IF digits # <<>> /\ \A i \in 1..Len(digits) : digits[i] \in 48..57
        THEN [some |-> TRUE, n |-> DigitsValue(digits, 0)]
        ELSE [some |-> FALSE, n |-> 0]

\* main, `cli <dir> <code>`: by_postcode(code), or else the code parsed as
\* an offset and given to by_offset.
cli_lookup(m, code) ==
    LET r == by_postcode(m, code)
        n == parse_usize(code)
    IN  IF r.some \/ r.panic THEN r
        ELSE IF n.some THEN by_offset(<<>>, n.n, "by_offset")
        ELSE NoneView

\* The codes of the six-character paths the server routes to by_postcode.
Codes6 ==
    { Bytes(<<"1", "0", "1", "7", "A", "B">>),
      Bytes(<<"1", "0", "1", "7", "c", "e">>),
      Bytes(<<"1", "0", "1", "7", "C", "e">>),
      Bytes(<<"1", "0", "1", "7", "C", "E">>),
      Bytes(<<"1", "0", "1", "7", "C", "C">>),
      Bytes(<<"1", "0", "1", "8", "a", "a">>),
      Bytes(<<"1", "0", "1", "8", "A", "B">>),
      Bytes(<<"9", "9", "9", "9", "z", "z">>),
      Bytes(<<"0", "0", "0", "0", "A", "A">>) }

\* The codes of the four-character paths the server routes to by_postcode4.
Codes4 ==
    { Bytes(<<"1", "0", "1", "7">>), Bytes(<<"1", "0", "1", "8">>),
      Bytes(<<"1", "0", "1", "9">>), Bytes(<<"2", "5", "1", "1">>),
      Bytes(<<"9", "9", "9", "9">>), Bytes(<<"0", "0", "0", "0">>),
      Bytes(<<"1", "0", "1", "6">>), Bytes(<<"1", "0", "1", "A">>),
      Bytes(<<"2", "5", "1", "2">>), Bytes(<<"a", "b", "c", "e">>) }

\* The codes given on the command line: postcodes in full, in part and too
\* long, and offsets in decimal.
CodesCli ==
    Codes6 \cup
    { <<>>,
      Bytes(<<"1", "0", "1", "7">>),
      Bytes(<<"1", "0", "1", "7", "c">>),
      Bytes(<<"1", "0", "1", "7", "C", "E", "E">>),
      Bytes(<<"1", "0", "1", "7", "c", "e", "0">>),
      Bytes(<<"0">>),
      Bytes(<<"2", "5">>),
      Bytes(<<"0", "2", "5">>),
      Bytes(<<"0", "1">>),
      Bytes(<<"+", "5", "0">>),
      Bytes(<<"1", "3", "3", "8", "7", "4", "7", "5">>),
      Bytes(<<"1", "3", "3", "8", "7", "4", "7", "6">>),
      Bytes(<<"1", "3", "3", "8", "7", "5", "0", "0">>) }

\* The point of a query that was given a code.
NoPoint == [lat |-> Fin(0), lon |-> Fin(0), ok |-> TRUE]

\* Chuva::load_from_dir: the index is the embedded map.
QryStart ==
    /\ fst \in {BuildFst(S) : S \in SUBSET PostcodePool}
    /\ qKind = "none"
    /\ qCode = <<>>
    /\ qPoint = NoPoint
    /\ qRes = NoneView

QryIdle ==
    /\ fst = <<>>
    /\ qKind = "none"
    /\ qCode = <<>>
    /\ qPoint = NoPoint
    /\ qRes = NoneView

\* route, "/@lat,lon": by_lat_lon
ByLatLon ==
    /\ \E la \in LatSamples, lo \in LonSamples, ok \in BOOLEAN :
          /\ qPoint' = [lat |-> la, lon |-> lo, ok |-> ok]
          /\ qRes' = by_lat_lon(la, lo, ok)
    /\ qKind' = "by_lat_lon"
    /\ qCode' = <<>>
    /\ UNCHANGED fst
    /\ UNCHANGED notQry

\* route, a path of seven bytes: by_postcode
ByPostcode ==
    /\ \E code \in Codes6 :
          /\ qCode' = code
          /\ qRes' = by_postcode(fst, code)
    /\ qKind' = "by_postcode"
    /\ qPoint' = NoPoint
    /\ UNCHANGED fst
    /\ UNCHANGED notQry

\* route, a path of five bytes: by_postcode4
ByPostcode4 ==
    /\ \E code \in Codes4 :
          /\ qCode' = code
          /\ qRes' = by_postcode4(fst, code)
    /\ qKind' = "by_postcode4"
    /\ qPoint' = NoPoint
    /\ UNCHANGED fst
    /\ UNCHANGED notQry

\* main, `cli <dir> <code>`
CliLookup ==
    /\ \E code \in CodesCli :
          /\ qCode' = code
          /\ qRes' = cli_lookup(fst, code)
    /\ qKind' = "cli"
    /\ qPoint' = NoPoint
    /\ UNCHANGED fst
    /\ UNCHANGED notQry

\* ---------------------------------------------------------------- ingestion
\* Values of the Dataset are held in hundredths of mm/h, so that `* 0.01`
\* is exact: a raw value v of the Simple file is v * 12 hundredths, a raw
\* value of the Ensemble file is v hundredths.
GridCells == GridW * GridH

\* vec![0f32; STEPS * HEIGHT * WIDTH]
ZeroData == [o \in 0..(GridSteps * GridH * GridW - 1) |-> 0]

\* Members of a file of the kind: one image per step, or ENS_SIZE outputs.
Members(kind) == IF kind = "Simple" THEN 1 ELSE ENS_SIZE

\* image.get_values_into(&mut buf, ..): the image of step z, row after row.
read_image(src, z) ==
    [idx \in 0..(GridCells - 1) |-> src[<<0, z, idx \div GridW, idx % GridW>>]]

\* precip.get_values_into(&mut buf, (.., time, .., ..)): every member's
\* grid of the step, member after member, each row after row.
read_time(src, time) ==
    [i \in 0..(ENS_SIZE * GridCells - 1) |->
        src[<<i \div GridCells, time,
              (i % GridCells) \div GridW, (i % GridCells) % GridW>>]]

\* f32::from(value) * 0.01 * 12f32
simple_mmhr(value) == value * PerHour

\* The loop of the closure `load`, from index idx on:
\* data[idx * STEPS + z] = mmhr.
RECURSIVE load_image(_, _, _, _)
load_image(d, buf, z, idx) ==
    IF idx >= GridCells THEN d
    ELSE load_image([d EXCEPT ![idx * GridSteps + z] = simple_mmhr(buf[idx])],
                    buf, z, idx + 1)

\* Insertion of v in an ascending sequence.
RECURSIVE insert_sorted(_, _)
insert_sorted(s, v) ==
    IF s = <<>> THEN <<v>>
    ELSE IF v <= Head(s) THEN <<v>> \o s
    ELSE <<Head(s)>> \o insert_sorted(Tail(s), v)

\* ens_members.sort_unstable()
RECURSIVE sort_unstable(_)
sort_unstable(s) ==
    IF s = <<>> THEN <<>> ELSE insert_sorted(sort_unstable(Tail(s)), Head(s))

\* ens_members[z] = buf[z * WIDTH * HEIGHT + y * WIDTH + x], for every z
ens_members(buf, x, y) ==
    [z \in 1..ENS_SIZE |-> buf[(z - 1) * GridW * GridH + y * GridW + x]]

\* The loops `for x in 0..WIDTH { for y in 0..HEIGHT {..} }` of
\* load_ensemble_dataset, from the k-th cell visited on:
\* data[(x * WIDTH + y) * STEPS + time] = ens_members[13] * 0.01.
RECURSIVE load_time(_, _, _, _)
load_time(d, buf, time, k) ==
    IF k >= GridCells THEN d
    ELSE LET x == k \div GridH
             y == k % GridH
             sorted == sort_unstable(ens_members(buf, x, y))
             offset == (x * GridW + y) * GridSteps + time
         IN  load_time([d EXCEPT ![offset] = sorted[EnsRank + 1]],
                       buf, time, k + 1)

\* A file with one value at every place.
Flat(kind, v) ==
    [c \in (0..(Members(kind) - 1)) \X (0..(GridSteps - 1))
           \X (0..(GridH - 1)) \X (0..(GridW - 1)) |-> v]

\* A file that is zero but at one cell and step, where member m holds
\* vals[m + 1].
Spike(kind, t, y, x, vals) ==
    [c \in DOMAIN Flat(kind, 0) |->
        IF c[2] = t /\ c[3] = y /\ c[4] = x THEN vals[c[1] + 1] ELSE 0]

\* A file whose values all differ from cell to cell and step to step.
Ramp(kind) ==
    [c \in DOMAIN Flat(kind, 0) |->
        1 + c[4] + GridW * c[3] + GridCells * c[2] + c[1] * GridCells * GridSteps]

\* The member values put at the cell of a Spike: ascending, descending,
\* shuffled, and with ties on either side of the rank taken.
MemberValues(kind) ==
    IF kind = "Simple"
    THEN {<<1>>, <<U16Max>>}
    ELSE { [m \in 1..ENS_SIZE |-> m],
           [m \in 1..ENS_SIZE |-> ENS_SIZE + 1 - m],
           [m \in 1..ENS_SIZE |-> 1 + ((7 * m) % ENS_SIZE)],
           [m \in 1..ENS_SIZE |-> IF m <= ENS_SIZE - EnsRank THEN 5 ELSE 0],
           [m \in 1..ENS_SIZE |-> IF m < ENS_SIZE - EnsRank THEN U16Max ELSE 0] }

Sources(kind) ==
    {Ramp(kind)} \cup
    { Spike(kind, t, y, x, vals) :
        t \in 0..(GridSteps - 1), y \in 0..(GridH - 1), x \in 0..(GridW - 1),
        vals \in MemberValues(kind) }

\* ------------------------------------------------------ choice of the file
\* b"RAD_NL25_RAC_FM_" and b"KNMI_PYSTEPS_BLEND_ENS_"
SimplePrefix ==
    Bytes(<<"R", "A", "D", "_", "N", "L", "2", "5", "_",
            "R", "A", "C", "_", "F", "M", "_">>)

EnsemblePrefix ==
    Bytes(<<"K", "N", "M", "I", "_", "P", "Y", "S", "T", "E", "P", "S", "_",
            "B", "L", "E", "N", "D", "_", "E", "N", "S", "_">>)

\* n in decimal, zero-padded to two and to four digits (%m, %d, %H, %M, %Y).
Pad2(n) == <<48 + (n \div 10), 48 + (n % 10)>>

Pad4(n) == Pad2(n \div 100) \o Pad2(n % 100)

\* The %Y%m%d%H%M of an instant.
Stamp(ts) == Pad4(ts.Y) \o Pad2(ts.M) \o Pad2(ts.D) \o Pad2(ts.h) \o Pad2(ts.m)

\* The name a data file of the kind produced at ts is given (the masks of
\* timestamp_mask).
DataName(kind, ts) ==
    IF kind = "Simple"
    THEN SimplePrefix \o Stamp(ts) \o Bytes(<<".", "h", "5">>)
    ELSE EnsemblePrefix \o Stamp(ts) \o Bytes(<<".", "n", "c">>)

\* The prefix and the extension of the mask of a kind.
MaskPrefix(kind) == IF kind = "Simple" THEN SimplePrefix ELSE EnsemblePrefix

MaskSuffix(kind) ==
    IF kind = "Simple" THEN Bytes(<<".", "h", "5">>) ELSE Bytes(<<".", "n", "c">>)

NoInstant == [Y |-> 0, M |-> 0, D |-> 0, h |-> 0, m |-> 0]

\* The number a run of decimal digits stands for.
RECURSIVE digits_value(_, _)
digits_value(digits, acc) ==
    IF digits = <<>> THEN acc
    ELSE digits_value(Tail(digits), 10 * acc + (Head(digits) - 48))

\* jiff::fmt::strtime::parse(kind.timestamp_mask(), &filename): the name has
\* to be the prefix, twelve digits that make a date and a time of day, and
\* the extension.
parse_timestamp(kind, name) ==
    LET pre == MaskPrefix(kind)
        suf == MaskSuffix(kind)
        from == Len(pre)
        field(a, b) == digits_value(SubSeq(name, from + a, from + b), 0)
        ts == [Y |-> field(1, 4), M |-> field(5, 6), D |-> field(7, 8),
               h |-> field(9, 10), m |-> field(11, 12)]
    IN  IF /\ Len(name) = Len(pre) + 12 + Len(suf)
           /\ SubSeq(name, 1, from) = pre
           /\ SubSeq(name, from + 13, Len(name)) = suf
           /\ \A i \in (from + 1)..(from + 12) : name[i] \in 48..57
           /\ ts.M \in 1..12 /\ ts.D \in 1..31 /\ ts.h \in 0..23 /\ ts.m \in 0..59
        THEN [ok |-> TRUE, ts |-> ts]
        ELSE [ok |-> FALSE, ts |-> NoInstant]

\* <[u8]>::starts_with
starts_with(name, prefix) ==
    Len(prefix) <= Len(name) /\ SubSeq(name, 1, Len(prefix)) = prefix

\* Path::extension: what follows the last '.' of the file name; None when
\* there is no '.', or only one that begins the name.
NoExtension == <<0>>

extension(name) ==
    LET dots == {i \in 1..Len(name) : name[i] = 46}
        last == CHOOSE i \in dots : \A j \in dots : j <= i
    IN  IF dots = {} THEN NoExtension
        ELSE IF last = 1 THEN NoExtension
        ELSE SubSeq(name, last + 1, Len(name))

\* ModelKind::guess
guess(name) ==
    IF extension(name) = NoExtension THEN "None"
    ELSE IF extension(name) = Bytes(<<"h", "5">>) /\ starts_with(name, SimplePrefix)
    THEN "Simple"
    ELSE IF extension(name) = Bytes(<<"n", "c">>) /\ starts_with(name, EnsemblePrefix)
    THEN "Ensemble"
    ELSE "None"

\* Iterator::max over the paths: the entry no other entry is greater than.
max_path(S) == CHOOSE e \in S : \A o \in S \ {e} : BytesLess(o, e)

\* A plausible slip: the least path is taken.
most_recent_data_file_min(entries, ok, kind) ==
    LET kept == {e \in entries :
                    guess(e) # "None" /\ (kind = "None" \/ kind = guess(e))}
    IN  IF ~ok THEN [ok |-> FALSE, err |-> "read_dir", file |-> <<>>]
        ELSE IF kept = {}
        THEN [ok |-> FALSE, err |-> "No data file found in given path",
              file |-> <<>>]
        ELSE [ok |-> TRUE, err |-> "",
              file |-> CHOOSE e \in kept : \A o \in kept \ {e} : BytesLess(e, o)]

\* most_recent_data_file(dir, kind)
most_recent_data_file(entries, ok, kind) ==
    LET kept == {e \in entries :
                    guess(e) # "None" /\ (kind = "None" \/ kind = guess(e))}
    IN  IF ~ok THEN [ok |-> FALSE, err |-> "read_dir", file |-> <<>>]
        ELSE IF kept = {}
        THEN [ok |-> FALSE, err |-> "No data file found in given path",
              file |-> <<>>]
        ELSE [ok |-> TRUE, err |-> "", file |-> max_path(kept)]

\* The instants the data files of the directory were produced at.
Instants ==
    { [Y |-> 2023, M |-> 12, D |-> 31, h |-> 23, m |-> 55],
      [Y |-> 2024, M |-> 1, D |-> 9, h |-> 12, m |-> 0],
      [Y |-> 2024, M |-> 1, D |-> 10, h |-> 0, m |-> 5],
      [Y |-> 2024, M |-> 10, D |-> 1, h |-> 0, m |-> 0] }

\* The entries a directory may hold that are not data files: a Simple name
\* with the other extension, one without extension, and unrelated files
\* that sort after and before the data files.
OtherNames ==
    { SimplePrefix \o Stamp([Y |-> 2025, M |-> 1, D |-> 1, h |-> 0, m |-> 0])
          \o Bytes(<<".", "n", "c">>),
      SimplePrefix \o Stamp([Y |-> 2025, M |-> 1, D |-> 1, h |-> 0, m |-> 0]),
      Bytes(<<"Z", ".", "h", "5">>),
      Bytes(<<".", "h", "5">>) }

\* A name that guess takes for a Simple data file although it carries no
\* timestamp.
UnstampedName == SimplePrefix \o Bytes(<<"x", ".", "h", "5">>)

NamePool ==
    {DataName(k, ts) : k \in {"Simple", "Ensemble"}, ts \in Instants}
        \cup OtherNames \cup {UnstampedName}

NoFileRes == [ok |-> FALSE, err |-> "", file |-> <<>>]

\* A directory, before it is looked into.
SelStart ==
    /\ dirEntries \in SUBSET NamePool
    /\ dirOk \in BOOLEAN
    /\ wantKind \in {"None", "Simple", "Ensemble"}
    /\ fileRes = NoFileRes

SelIdle ==
    /\ dirEntries = {}
    /\ dirOk = TRUE
    /\ wantKind = "idle"
    /\ fileRes = NoFileRes

\* Chuva::load_from_dir (kind None) and ModelKind::load_from_dir (Some(kind)):
\* the call of most_recent_data_file.
MostRecentDataFile ==
    /\ wantKind # "idle"
    /\ fileRes = NoFileRes
    /\ fileRes' = most_recent_data_file(dirEntries, dirOk, wantKind)
    /\ UNCHANGED <<dirEntries, dirOk, wantKind>>
    /\ UNCHANGED notSel

\* ---------------------------------------------------- ingestion: the machine
\* An instant data files are named after.
NameInstant == [Y |-> 2024, M |-> 1, D |-> 9, h |-> 12, m |-> 0]

\* The names load_kind is given for a file of the kind: a proper one, one
\* whose digits are no date (month 13), and one without digits.
IngNames(kind) ==
    { DataName(kind, NameInstant),
      DataName(kind, [NameInstant EXCEPT !.M = 13]),
      MaskPrefix(kind) \o Bytes(<<"x">>) \o MaskSuffix(kind) }

\* What may be wrong with a file of the kind, and the step at which it shows.
Faults(kind) ==
    {<<"none", -1>>, <<"open", -1>>} \cup
    (IF kind = "Simple"
     THEN {"group", "variable", "read"} \X (0..(GridSteps - 1))
     ELSE {<<"variable", -1>>} \cup ({"read"} \X (0..(GridSteps - 1))))

NoChuva == [some |-> FALSE, created_at |-> NoInstant]

\* Chuva::load_kind(file, kind) is called.
IngStart ==
    /\ ingKind \in {"Simple", "Ensemble"}
    /\ ingName \in IngNames(ingKind)
    /\ source \in Sources(ingKind)
    /\ \E f \in Faults(ingKind) :
          /\ failWhat = f[1]
          /\ failAt = f[2]
    /\ ingStep = 0
    /\ data = <<>>
    /\ ingStatus = "new"
    /\ loaded = NoChuva

IngIdle ==
    /\ ingKind = "none"
    /\ ingName = <<>>
    /\ source = <<>>
    /\ failWhat = "none"
    /\ failAt = -1
    /\ ingStep = 0
    /\ data = <<>>
    /\ ingStatus = "idle"
    /\ loaded = NoChuva

\* load_kind up to the first step of the loader: the timestamp is parsed,
\* the file is opened (and, for Ensemble, precip_intensity looked up) and
\* the array allocated; each of these may return the error.
LoadKind ==
    /\ ingStatus = "new"
    /\ IF \/ ~parse_timestamp(ingKind, ingName).ok
          \/ failWhat = "open"
          \/ ingKind = "Ensemble" /\ failWhat = "variable"
       THEN /\ ingStatus' = "err"
            /\ data' = <<>>
       ELSE /\ ingStatus' = "loading"
            /\ data' = ZeroData
    /\ UNCHANGED <<ingKind, ingName, source, failWhat, failAt, ingStep, loaded>>
    /\ UNCHANGED notIng

\* A plausible slip: only a failed read ends a step.
step_fails_on_read_only(kind, what, at, step) == at = step /\ what = "read"

\* Whether step `step` of the loader of the kind returns an error: the group
\* or its image_data is missing or get_values_into fails (Simple),
\* get_values_into fails (Ensemble).
step_fails(kind, what, at, step) ==
    /\ at = step
    /\ what \in (IF kind = "Simple" THEN {"group", "variable", "read"}
                 ELSE {"read"})

\* What a step leaves when it fails (`?`) and when it succeeds; after the
\* last step Ok(data) is returned and load_kind returns the Chuva.
StepFails ==
    /\ ingStatus' = "err"
    /\ data' = <<>>
    /\ ingStep' = ingStep
    /\ loaded' = NoChuva

StepDone(d) ==
    /\ data' = d
    /\ ingStep' = ingStep + 1
    /\ ingStatus' = IF ingStep + 1 = GridSteps THEN "ok" ELSE "loading"
    /\ loaded' = IF ingStep + 1 = GridSteps
                 THEN [some |-> TRUE,
                       created_at |-> parse_timestamp(ingKind, ingName).ts]
                 ELSE NoChuva

\* load: one call of the closure, load("image<z+1>", z)?
LoadImage ==
    /\ ingStatus = "loading"
    /\ ingKind = "Simple"
    /\ ingStep < GridSteps
    /\ IF step_fails(ingKind, failWhat, failAt, ingStep)
       THEN StepFails
       ELSE StepDone(load_image(data, read_image(source, ingStep), ingStep, 0))
    /\ UNCHANGED <<ingKind, ingName, source, failWhat, failAt>>
    /\ UNCHANGED notIng

\* load_ensemble_dataset: one turn of `for time in 0..STEPS`
LoadTime ==
    /\ ingStatus = "loading"
    /\ ingKind = "Ensemble"
    /\ ingStep < GridSteps
    /\ IF step_fails(ingKind, failWhat, failAt, ingStep)
       THEN StepFails
       ELSE StepDone(load_time(data, read_time(source, ingStep), ingStep, 0))
    /\ UNCHANGED <<ingKind, ingName, source, failWhat, failAt>>
    /\ UNCHANGED notIng

\* ----------------------------------------------------------------- requests
\* All the Exprs a Lexer yields, from the state (pos, ms, st) on.
RECURSIVE Lexer_collect(_, _, _, _, _)
Lexer_collect(p, pos, ms, st, acc) ==
    LET r == Lexer_next(p, pos, ms, st)
    IN  IF r.ret.kind = "None" \/ r.panic THEN acc
        ELSE Lexer_collect(p, r.pos, r.ms, r.stash, Append(acc, r.ret))

\* Events::new(created_at, slot, preds) iterated to its end.
events(slot_, p) ==
    LET lx == Lexer_from_tokenizer(slot_, p)
    IN  Lexer_collect(p, lx.pos, lx.ms, lx.stash, <<>>)

\* The queries of the requests: six- and four-character paths and /@lat,lon.
Queries ==
    { [kind |-> "by_postcode", code |-> Bytes(<<"1", "0", "1", "7", "a", "b">>),
       point |-> NoPoint],
      [kind |-> "by_postcode", code |-> Bytes(<<"0", "0", "0", "0", "A", "A">>),
       point |-> NoPoint],
      [kind |-> "by_postcode4", code |-> Bytes(<<"1", "0", "1", "8">>),
       point |-> NoPoint],
      [kind |-> "by_postcode4", code |-> Bytes(<<"1", "0", "1", "9">>),
       point |-> NoPoint],
      [kind |-> "by_lat_lon", code |-> <<>>,
       point |-> [lat |-> Fin(52325000), lon |-> Fin(4873000), ok |-> TRUE]],
      [kind |-> "by_lat_lon", code |-> <<>>,
       point |-> [lat |-> Fin(0), lon |-> Fin(4873000), ok |-> TRUE]] }

\* Timestamp::now() of a request, in seconds: at the creation of the
\* dataset, a step later, and past its validity.
Nows == {0, MinutesPerSlot * SecPerMinute, (MaxAgeMinutes + 1) * SecPerMinute}

\* route: the query of the request, answered from the index and projector.
route(f, q) ==
    IF q.kind = "by_postcode" THEN by_postcode(f, q.code)
    ELSE IF q.kind = "by_postcode4" THEN by_postcode4(f, q.code)
    ELSE by_lat_lon(q.point.lat, q.point.lon, q.point.ok)

\* The cells the index and the sampled points lead to.
CellOffsets ==
    {e.value : e \in {BuildFst(PostcodePool)[i] : i \in 1..Len(BuildFst(PostcodePool))}}
        \cup {route(<<>>, q).start : q \in {r \in Queries : route(<<>>, r).some}}

\* A Prediction slice of PredLen values, different from cell to cell.
Pattern(o, v) ==
    [i \in 1..PredLen |->
        IF ((o \div STEPS) + v + (i * (i + 1)) \div 2) % 3 = 0 THEN 0 ELSE 1]

\* Reading a slice through &self leaves the Dataset as it is.
dataset_after_take(ds, o) == [ds EXCEPT ![o] = [i \in 1..PredLen |-> 0]]

dataset_after_read(ds, o) == ds

\* render_into from the slot on: "No rain in sight" for an all-zero slice,
\* the events of the Lexer otherwise.
rendered(slot_, p) ==
    IF \A i \in 1..Len(p) : p[i] = 0
    THEN [status |-> "no rain", slot |-> slot_, exprs |-> <<>>]
    ELSE [status |-> "ok", slot |-> slot_, exprs |-> events(slot_, p)]

NoResponse == [status |-> "", slot |-> 0, exprs |-> <<>>]

ErrResponse(status) == [status |-> status, slot |-> 0, exprs |-> <<>>]

\* render, run from beginning to end on the engine (f, created, ds).
render(f, created, ds, q, t) ==
    LET v == route(f, q)
        sl == get_time_slot(created, t)
    IN  IF v.panic THEN ErrResponse("panic")
        ELSE IF ~v.some THEN ErrResponse("bad request")
        ELSE IF sl.panic THEN ErrResponse("panic")
        ELSE IF ~sl.ok THEN ErrResponse("error500")
        ELSE rendered(sl.val, ds[v.start])

Tasks == 1..NumTasks

IdleReq == [pc |-> "idle", q |-> [kind |-> "none", code |-> <<>>, point |-> NoPoint],
            now |-> 0, start |-> 0, slot |-> 0, res |-> NoResponse]

\* async_main: the engine is loaded and shared (Arc<State>); no request yet.
SrvStart ==
    /\ fst = BuildFst(PostcodePool)
    /\ qKind = "none"
    /\ qCode = <<>>
    /\ qPoint = NoPoint
    /\ qRes = NoneView
    /\ created_at = 0
    /\ now = 0
    /\ slotRes = NoSlotRes
    /\ dataset \in {[o \in CellOffsets |-> Pattern(o, v)] : v \in 0..2}
    /\ engine0 = <<fst, created_at, dataset>>
    /\ req = [t \in Tasks |-> IdleReq]

SrvIdle ==
    /\ dataset = <<>>
    /\ engine0 = <<>>
    /\ req = <<>>

\* render: route(&req, &state.chuva) of request t.
Route(t) ==
    /\ req[t].pc = "idle"
    /\ \E q \in Queries, n \in Nows :
          LET v == route(fst, q)
          IN  req' = [req EXCEPT ![t] =
                        IF v.panic
                        THEN [@ EXCEPT !.pc = "done", !.q = q, !.now = n,
                                       !.res = ErrResponse("panic")]
                        ELSE IF ~v.some
                        THEN [@ EXCEPT !.pc = "done", !.q = q, !.now = n,
                                       !.res = ErrResponse("bad request")]
                        ELSE [@ EXCEPT !.pc = "routed", !.q = q, !.now = n,
                                       !.start = v.start]]
    /\ UNCHANGED <<dataset, engine0, qryVars, slotVars>>
    /\ UNCHANGED notSrv

\* render_into: self.chuva.get_time_slot(now) of request t.
TimeSlot(t) ==
    /\ req[t].pc = "routed"
    /\ LET sl == get_time_slot(created_at, req[t].now)
       IN  req' = [req EXCEPT ![t] =
                     IF sl.panic
                     THEN [@ EXCEPT !.pc = "done", !.res = ErrResponse("panic")]
                     ELSE IF ~sl.ok
                     THEN [@ EXCEPT !.pc = "done", !.res = ErrResponse("error500")]
                     ELSE [@ EXCEPT !.pc = "slotted", !.slot = sl.val]]
    /\ UNCHANGED <<dataset, engine0, qryVars, slotVars>>
    /\ UNCHANGED notSrv

\* render_into: the slice is read and the Lexer iterated for request t.
Render(t) ==
    /\ req[t].pc = "slotted"
    /\ req' = [req EXCEPT ![t] =
                 [@ EXCEPT !.pc = "done",
                           !.res = rendered(req[t].slot, dataset[req[t].start])]]
    /\ dataset' = dataset_after_read(dataset, req[t].start)
    /\ UNCHANGED <<engine0, qryVars, slotVars>>
    /\ UNCHANGED notSrv

\* ----------------------------------------------------------------- parse_qs
\* The bytes '=' and '&'.
EqSign == Ascii["="]

Amp == Ascii["&"]

\* A plausible slip: str::rsplit_once, the split at the last c.
rsplit_once(str, c) ==
    LET hits == {i \in 1..Len(str) : str[i] = c}
        at == CHOOSE i \in hits : \A j \in hits : j <= i
    IN  IF hits = {} THEN [some |-> FALSE, before |-> <<>>, after |-> <<>>]
        ELSE [some |-> TRUE, before |-> SubSeq(str, 1, at - 1),
              after |-> SubSeq(str, at + 1, Len(str))]

\* str::split_once(c): the parts before and after the first c, if there is one.
split_once(str, c) ==
    LET hits == {i \in 1..Len(str) : str[i] = c}
    IN  IF hits = {} THEN [some |-> FALSE, before |-> <<>>, after |-> <<>>]
        ELSE [some |-> TRUE, before |-> SubSeq(str, 1, Min(hits) - 1),
              after |-> SubSeq(str, Min(hits) + 1, Len(str))]

\* The items of the iterator; each is kept with the input next() was called on.
NoItem == [kind |-> "None", key |-> <<>>, value |-> <<>>, rest |-> <<>>]

OkItem(key, value) == [kind |-> "Ok", key |-> key, value |-> value, rest |-> <<>>]

ErrItem(rest) == [kind |-> "Err", key |-> <<>>, value |-> <<>>, rest |-> rest]

QsRet(item, input, done) == [item |-> item, input |-> input, done |-> done]

\* A plausible slip: the parser goes on after an Err.
Parser_next_err_not_done(input, done) ==
    LET kv == split_once(input, EqSign)
        vr == split_once(kv.after, Amp)
    IN  IF done THEN QsRet(NoItem, input, done)
        ELSE IF kv.some
        THEN IF kv.before = <<>> \/ Head(kv.before) = Amp
             THEN QsRet(ErrItem(input), input, FALSE)
             ELSE IF vr.some
             THEN QsRet(OkItem(kv.before, vr.before), vr.after, vr.after = <<>>)
             ELSE QsRet(OkItem(kv.before, kv.after), input, TRUE)
        ELSE QsRet(ErrItem(input), input, FALSE)

\* Parser::next: the item returned, and input and done after the call.
Parser_next(input, done) ==
    LET kv == split_once(input, EqSign)
        vr == split_once(kv.after, Amp)
    IN  IF done THEN QsRet(NoItem, input, done)
        ELSE IF kv.some
        THEN IF kv.before = <<>> \/ Head(kv.before) = Amp
             THEN QsRet(ErrItem(input), input, TRUE)
             ELSE IF vr.some
             THEN QsRet(OkItem(kv.before, vr.before), vr.after, vr.after = <<>>)
             ELSE QsRet(OkItem(kv.before, kv.after), input, TRUE)
        ELSE QsRet(ErrItem(input), input, TRUE)

\* The characters query strings are made of.
QsBytes == {Ascii["a"], Ascii["b"], EqSign, Amp}

\* parse_qs(input): Parser::new
QsStart ==
    /\ qsGiven \in SeqsUpTo(QsBytes, MaxQsLen)
    /\ qsInput = qsGiven
    /\ qsDone = (qsGiven = <<>>)
    /\ qsItems = <<>>
    /\ qsNone = 0

QsIdle ==
    /\ qsGiven = <<>>
    /\ qsInput = <<>>
    /\ qsDone = TRUE
    /\ qsItems = <<>>
    /\ qsNone = MaxNoneCalls

\* One call of Parser::next (Iterator::next).
ParserNext ==
    /\ qsNone < MaxNoneCalls
    /\ LET r == Parser_next(qsInput, qsDone)
       IN  /\ qsInput' = r.input
           /\ qsDone' = r.done
           /\ IF r.item.kind = "None"
              THEN /\ qsNone' = qsNone + 1
                   /\ UNCHANGED qsItems
              ELSE /\ qsItems' = Append(qsItems, [item |-> r.item, on |-> qsInput])
                   /\ UNCHANGED qsNone
    /\ UNCHANGED qsGiven
    /\ UNCHANGED notQs

\* -------------------------------------------------------------------- serve
\* A plausible slip: the select! is not biased towards the signal, and the
\* accept branch is polled first.
select_loop_accept_first(sig, waiting) ==
    IF waiting > 0 THEN "accept" ELSE IF sig THEN "shutdown" ELSE "pending"

\* The first select!, `biased;`: the branches are polled in the order they
\* are written, shutdown_signal() before listener.accept().
select_loop(sig, waiting) ==
    IF sig THEN "shutdown" ELSE IF waiting > 0 THEN "accept" ELSE "pending"

\* The second select!, not biased: any branch that is ready may be taken.
select_drain(watched, elapsed) ==
    (IF watched = 0 THEN {"graceful"} ELSE {}) \cup
    (IF elapsed THEN {"timeout"} ELSE {})

\* serve(listener, service) has begun: the listener is open, nothing has
\* been accepted.
ShStart ==
    /\ svPc = "loop"
    /\ sigReady = FALSE
    /\ listener = TRUE
    /\ backlog = 0
    /\ arrived = 0
    /\ graceful = 0
    /\ spawned = 0
    /\ timer = FALSE
    /\ dropped = 0
    /\ returnedBy = "none"

ShIdle ==
    /\ svPc = "idle"
    /\ sigReady = FALSE
    /\ listener = FALSE
    /\ backlog = 0
    /\ arrived = 0
    /\ graceful = 0
    /\ spawned = 0
    /\ timer = FALSE
    /\ dropped = 0
    /\ returnedBy = "none"

\* SIGINT or SIGTERM reaches the process: shutdown_signal() becomes ready.
Signal ==
    /\ svPc = "loop"
    /\ ~sigReady
    /\ sigReady' = TRUE
    /\ UNCHANGED <<svPc, listener, backlog, arrived, graceful, spawned, timer,
                   dropped, returnedBy>>
    /\ UNCHANGED notSh

\* A client connects: listener.accept() becomes ready.
Connect ==
    /\ listener
    /\ arrived < MaxConns
    /\ arrived' = arrived + 1
    /\ backlog' = backlog + 1
    /\ UNCHANGED <<svPc, sigReady, listener, graceful, spawned, timer,
                   dropped, returnedBy>>
    /\ UNCHANGED notSh

\* One turn of the accept loop: the first select! and the branch it takes.
\* An accept that fails takes a connection off the queue without a spawn.
SelectLoop ==
    /\ svPc = "loop"
    /\ select_loop(sigReady, backlog) # "pending"
    /\ IF select_loop(sigReady, backlog) = "shutdown"
       THEN \* drop(listener); break
            /\ listener' = FALSE
            /\ dropped' = backlog
            /\ backlog' = 0
            /\ svPc' = "drain"
            /\ UNCHANGED <<graceful, spawned>>
       ELSE \* handle_accept(result)
            /\ \E ok \in BOOLEAN :
                  /\ graceful' = IF ok THEN graceful + 1 ELSE graceful
                  /\ spawned' = IF ok THEN spawned + 1 ELSE spawned
            /\ backlog' = backlog - 1
            /\ UNCHANGED <<svPc, listener, dropped>>
    /\ UNCHANGED <<sigReady, arrived, timer, returnedBy>>
    /\ UNCHANGED notSh

\* A spawned connection finishes (conn.await returns).
ConnDone ==
    /\ svPc \in {"loop", "drain"}
    /\ graceful > 0
    /\ graceful' = graceful - 1
    /\ UNCHANGED <<svPc, sigReady, listener, backlog, arrived, spawned, timer,
                   dropped, returnedBy>>
    /\ UNCHANGED notSh

\* sleep(Duration::from_secs(5)) elapses.
TimerFires ==
    /\ svPc = "drain"
    /\ ~timer
    /\ timer' = TRUE
    /\ UNCHANGED <<svPc, sigReady, listener, backlog, arrived, graceful,
                   spawned, dropped, returnedBy>>
    /\ UNCHANGED notSh

\* The second select! completes and serve returns.
SelectDrain ==
    /\ svPc = "drain"
    /\ \E branch \in select_drain(graceful, timer) :
          returnedBy' = branch
    /\ svPc' = "returned"
    /\ UNCHANGED <<sigReady, listener, backlog, arrived, graceful, spawned,
                   timer, dropped>>
    /\ UNCHANGED notSh

\* ============================================================ specifications
LexNext == LexerNew \/ LexerNext

InitLexer == LexStart /\ SlotIdle /\ ProjIdle /\ QryIdle /\ IngIdle /\ SelIdle /\ SrvIdle /\ QsIdle /\ ShIdle

SpecLexer == InitLexer /\ [][LexNext]_vars

TokNext == TokenizerNext

InitTokenizer == TokStart /\ SlotIdle /\ ProjIdle /\ QryIdle /\ IngIdle /\ SelIdle /\ SrvIdle /\ QsIdle /\ ShIdle

SpecTokenizer == InitTokenizer /\ [][TokNext]_vars

SlotNext == GetTimeSlot

InitSlot == SlotStart /\ LexIdle /\ ProjIdle /\ QryIdle /\ IngIdle /\ SelIdle /\ SrvIdle /\ QsIdle /\ ShIdle

FlushNext == IntoExpr

InitFlush == FlushStart /\ SlotIdle /\ ProjIdle /\ QryIdle /\ IngIdle /\ SelIdle /\ SrvIdle /\ QsIdle /\ ShIdle

SpecFlush == InitFlush /\ [][FlushNext]_vars

SpecSlot == InitSlot /\ [][SlotNext]_vars

ProjNext == ToOffset

InitProj == ProjStart /\ LexIdle /\ SlotIdle /\ QryIdle /\ IngIdle /\ SelIdle /\ SrvIdle /\ QsIdle /\ ShIdle

SpecProj == InitProj /\ [][ProjNext]_vars

XYNext == ToXY

InitXY == XYStart /\ LexIdle /\ SlotIdle /\ QryIdle /\ IngIdle /\ SelIdle /\ SrvIdle /\ QsIdle /\ ShIdle

SpecXY == InitXY /\ [][XYNext]_vars

QryNext == ByLatLon \/ ByPostcode \/ ByPostcode4 \/ CliLookup

InitQry == QryStart /\ LexIdle /\ SlotIdle /\ ProjIdle /\ IngIdle /\ SelIdle /\ SrvIdle /\ QsIdle /\ ShIdle

SpecQuery == InitQry /\ [][QryNext]_vars

SrvNext == \E t \in Tasks : Route(t) \/ TimeSlot(t) \/ Render(t)

InitServe == SrvStart /\ LexIdle /\ ProjIdle /\ IngIdle /\ SelIdle /\ QsIdle /\ ShIdle

SpecServe == InitServe /\ [][SrvNext]_vars

ShNext == Signal \/ Connect \/ SelectLoop \/ ConnDone \/ TimerFires \/ SelectDrain

InitShutdown == ShStart /\ LexIdle /\ SlotIdle /\ ProjIdle /\ QryIdle /\ IngIdle /\ SelIdle /\ SrvIdle /\ QsIdle

\* The timer elapses and a select! whose branch is ready is resumed.
SpecShutdown ==
    /\ InitShutdown
    /\ [][ShNext]_vars
    /\ WF_vars(TimerFires)
    /\ WF_vars(SelectDrain)

QsNext == ParserNext

InitQs == QsStart /\ LexIdle /\ SlotIdle /\ ProjIdle /\ QryIdle /\ IngIdle /\ SelIdle /\ SrvIdle /\ ShIdle

SpecQs == InitQs /\ [][QsNext]_vars

SelNext == MostRecentDataFile

InitSelect == SelStart /\ LexIdle /\ SlotIdle /\ ProjIdle /\ QryIdle /\ IngIdle /\ SrvIdle /\ QsIdle /\ ShIdle

SpecSelect == InitSelect /\ [][SelNext]_vars

IngNext == LoadKind \/ LoadImage \/ LoadTime

InitIngest == IngStart /\ LexIdle /\ SlotIdle /\ ProjIdle /\ QryIdle /\ SelIdle /\ SrvIdle /\ QsIdle /\ ShIdle

SpecIngest == InitIngest /\ [][IngNext]_vars

\* ------------------------------------------------------------- C1
\* Number of zero-valued slots of p inside [s, e).
ZerosIn(p, s, e) == Cardinality({i \in s..(e - 1) : At(p, i) = 0})

\* A zero slot i of [s, e) is isolated: it has both neighbours inside the
\* range and both are strictly positive.
Isolated(p, s, e, i) ==
    /\ s < i
    /\ i < e - 1
    /\ At(p, i - 1) > 0
    /\ At(p, i + 1) > 0

\* C1: every Showers the Lexer emits has gaps equal to the number of
\* zero-valued slots inside its range, every such slot is isolated, and a
\* flushed interval is Showers exactly when it absorbed at least one
\* single-slot dry run, Rain otherwise.
C1_ShowersGaps ==
    \A k \in 1..Len(out) :
        LET e == out[k] IN
        /\ e.kind = "Showers" =>
              /\ via[k] = "flush"
              /\ e.gaps = ZerosIn(preds, e.start, e.end)
              /\ \A i \in e.start..(e.end - 1) :
                    At(preds, i) = 0 => Isolated(preds, e.start, e.end, i)
        /\ via[k] = "flush" =>
              /\ e.kind \in {"Rain", "Showers"}
              /\ (e.kind = "Showers") <=> (ZerosIn(preds, e.start, e.end) >= 1)

\* A run that has flushed a Showers with two absorbed gaps and, at the end
\* of the slice, un-merged a trailing single dry slot.
C1_Witness ==
    /\ Len(out) >= 2
    /\ \E k \in 1..(Len(out) - 1) :
          /\ out[k].kind = "Showers"
          /\ out[k].gaps >= 2
          /\ via[k] = "flush"
          /\ via[k + 1] = "stash"
          /\ out[k + 1].end = Len(preds)

\* ------------------------------------------------------------- C6
\* The age of the dataset at the last get_time_slot call, in seconds.
AgeSec == now - created_at

InWindow == 0 <= AgeSec /\ AgeSec <= MaxAgeMinutes * SecPerMinute

\* C6: for every age in [0,120] minutes get_time_slot succeeds with
\* slot = floor(age/5), the slot is below STEPS and the assertion holds;
\* age 0 gives 0, 119m59s gives 23, exactly 120 minutes gives 24.
C6_SlotInWindow ==
    InWindow =>
        /\ slotRes.ok
        /\ ~slotRes.panic
        /\ slotRes.val \in 0..(STEPS - 1)
        /\ slotRes.val * 300 <= AgeSec
        /\ AgeSec < (slotRes.val + 1) * 300
        /\ (AgeSec = 0 => slotRes.val = 0)
        /\ (AgeSec = 7199 => slotRes.val = 23)
        /\ (AgeSec = 7200 => slotRes.val = 24)

\* A call at exactly 120 minutes of age has returned the last slot.
C6_Witness == AgeSec = 7200 /\ slotRes.ok /\ slotRes.val = 24

\* ------------------------------------------------------------- C7
\* C7 as claimed: get_time_slot fails exactly when the age is outside
\* [0,120] minutes, and the minute value a failure carries is negative when
\* now precedes created_at, above 120 when the dataset is stale, and never
\* a value in [0,120].
C7_ErrValueOutsideWindow ==
    /\ (~slotRes.ok) <=> ~InWindow
    /\ ~slotRes.ok =>
          /\ (AgeSec < 0 => slotRes.val < 0)
          /\ (AgeSec > 7200 => slotRes.val > 120)
          /\ slotRes.val \notin 0..120

\* C7 as amended: get_time_slot fails exactly when the age is outside
\* [0,120] minutes, and a failure carries the age truncated toward zero to
\* whole minutes: at most 0 when now precedes created_at, at least 120 when
\* the dataset is stale, never a value in [1,119].
C7_ErrValueTruncated ==
    /\ (~slotRes.ok) <=> ~InWindow
    /\ ~slotRes.ok =>
          /\ (AgeSec < 0 =>
                /\ slotRes.val <= 0
                /\ slotRes.val * 60 >= AgeSec
                /\ (slotRes.val - 1) * 60 < AgeSec)
          /\ (AgeSec > 7200 =>
                /\ slotRes.val >= 120
                /\ slotRes.val * 60 <= AgeSec
                /\ AgeSec < (slotRes.val + 1) * 60)
          /\ slotRes.val \notin 1..119

\* A dataset 120 minutes and 30 seconds old has been refused with 120.
C7_Witness == AgeSec = 7230 /\ ~slotRes.ok /\ slotRes.val = 120

\* ------------------------------------------------------------- C4
\* The pixel coordinates of the last call before the casts (thousandths).
PixelX == PixelTable[<<lat.v, lon.v>>][1]
PixelY == PixelTable[<<lat.v, lon.v>>][2]

\* px truncated toward zero and py rounded to the nearest whole number, as
\* signed integers.
TruncTowardZero(milli) ==
    IF milli >= 0 THEN milli \div 1000 ELSE -((-milli) \div 1000)
RoundNearest(milli) ==
    IF milli >= 0 THEN (milli + 500) \div 1000 ELSE -((-milli + 500) \div 1000)

InRectangle ==
    /\ lat.cls = "fin"
    /\ lon.cls = "fin"
    /\ 0 <= lon.v
    /\ lon.v < 10856453
    /\ 48895302 <= lat.v
    /\ lat.v < 55973602

\* C4: to_offset returns an offset only if lat and lon are finite, inside
\* the coverage rectangle, and the projected pixel (px truncated toward
\* zero, py rounded to nearest) lies in [0,WIDTH) x [0,HEIGHT); for every
\* other input, a negative pixel coordinate and a failing projection
\* included, it returns no mapping, and it never fails.
C4_OffsetOnlyInsideGrid ==
    /\ ~offRes.panic
    /\ offRes.some =>
          /\ InRectangle
          /\ transform_ok
          /\ TruncTowardZero(PixelX) \in 0..(WIDTH - 1)
          /\ RoundNearest(PixelY) \in 0..(HEIGHT - 1)

\* ------------------------------------------------------------- C5
\* C5: every offset to_offset returns is a multiple of STEPS and at most
\* MAX_OFFSET = WIDTH*HEIGHT*STEPS - STEPS, and the assertion
\* offset <= MAX_OFFSET never fails.
C5_OffsetAligned ==
    /\ ~offRes.panic
    /\ offRes.some =>
          /\ offRes.offset % 25 = 0
          /\ offRes.offset >= 0
          /\ offRes.offset <= 700 * 765 * 25 - 25

\* to_offset has returned the offset of the pixel (699, 764), the last
\* column and the last row of the grid.
C5_Witness ==
    /\ offRes.some
    /\ lat = Fin(48900000)
    /\ lon = Fin(9000000)
    /\ offRes.offset = (699 * 700 + 764) * 25

\* ------------------------------------------------------------- C8
\* The query with every byte upper-cased.
Upper(code) == [i \in 1..Len(code) |-> to_ascii_uppercase(code[i])]

HasPrefix(key, p) == Len(p) <= Len(key) /\ SubSeq(key, 1, Len(p)) = p

\* The entries of the index whose key begins with p.
EntriesWith(p) == {fst[i] : i \in {j \in 1..Len(fst) : HasPrefix(fst[j].key, p)}}

\* The entry of S with the smallest key.
LeastEntry(S) == CHOOSE e \in S : \A o \in S \ {e} : BytesLess(e.key, o.key)

\* The last query went through by_postcode.
ThroughByPostcode == qKind \in {"by_postcode", "cli"}

\* Its result is one by_postcode gave.
FromByPostcode == qRes.some /\ qRes.from = "by_postcode"

\* C8, as stated: by_postcode returns a mapping only for a stored key that
\* equals the upper-cased query byte for byte over its full length, so a
\* query shorter than, longer than or different from every stored key
\* returns none.
C8_FullLengthMatchOnly ==
    ThroughByPostcode /\ FromByPostcode => qRes.key = Upper(qCode)

\* C8, amended: by_postcode returns the entry with the smallest stored key
\* that begins with the upper-cased query (for a query as long as the keys:
\* the key equal to it), and none when no stored key begins with it; a
\* lower-case query returns what its upper-case form returns.
C8_UppercasedPrefixMatch ==
    ThroughByPostcode =>
        LET hits == EntriesWith(Upper(qCode))
        IN  /\ hits = {} => ~FromByPostcode
            /\ hits # {} =>
                  /\ FromByPostcode
                  /\ qRes.key = LeastEntry(hits).key
                  /\ qRes.start = LeastEntry(hits).value
                  /\ Len(qCode) = 6 => qRes.key = Upper(qCode)
            /\ by_postcode(fst, qCode) = by_postcode(fst, Upper(qCode))

\* A lower-case query found the entry stored under its upper-case form.
C8_Witness ==
    /\ qKind = "by_postcode"
    /\ qCode = Bytes(<<"1", "0", "1", "7", "c", "e">>)
    /\ FromByPostcode
    /\ qRes.key = Bytes(<<"1", "0", "1", "7", "C", "E">>)

\* ------------------------------------------------------------- C9
\* C9: for a 4-character query q and sorted unique 6-character keys,
\* by_postcode4(q) returns the offset of the smallest stored key whose first
\* four characters are q, and returns no match exactly when no stored key
\* begins with q.
C9_Prefix4SmallestKey ==
    qKind = "by_postcode4" =>
        LET hits == EntriesWith(qCode)
        IN  /\ Len(qCode) = 4
            /\ ~qRes.panic
            /\ ~qRes.some <=> hits = {}
            /\ hits # {} =>
                  /\ qRes.key = LeastEntry(hits).key
                  /\ qRes.start = LeastEntry(hits).value

\* Two stored keys begin with the query, and the smaller one was returned.
C9_Witness ==
    /\ qKind = "by_postcode4"
    /\ Cardinality(EntriesWith(qCode)) = 2
    /\ qRes.some
    /\ qRes.key = Bytes(<<"1", "0", "1", "7", "A", "B">>)

\* ------------------------------------------------------------ C10
\* C10: every query entry point, given any input its callers can pass
\* (an integer offset parsed from the command line included), returns
\* either no mapping or a view of exactly STEPS values that starts at a
\* multiple of STEPS no greater than MAX_OFFSET; none of them aborts.
C10_ViewValid ==
    qKind # "none" =>
        /\ ~qRes.panic
        /\ qRes.some =>
              /\ qRes.len = STEPS
              /\ qRes.start % STEPS = 0
              /\ qRes.start <= MAX_OFFSET

\* ------------------------------------------------------------- C2
\* The offset to_offset gives the cell (x, y), on the grid of the loaders.
grid_offset(x, y) == (x * GridW + y) * GridSteps

\* The members' raw values at a cell and step of the file.
MembersAt(t, y, x) == [m \in 1..Members(ingKind) |-> source[<<m - 1, t, y, x>>]]

\* C2: after a successful Simple ingestion, for every cell (x, y) and step
\* t, Dataset[(x*WIDTH + y)*STEPS + t] is raw*0.01*12 for the raw value of
\* the grid of step t at column x, row y.
C2_SimpleCellSeries ==
    ingKind = "Simple" /\ ingStatus = "ok" =>
        \A x \in 0..(GridW - 1), y \in 0..(GridH - 1), t \in 0..(GridSteps - 1) :
            data[grid_offset(x, y) + t] = source[<<0, t, y, x>>] * PerHour

\* ------------------------------------------------------------- C3
\* The number of members whose value is below v, and at most v.
CountBelow(vals, v) == Cardinality({m \in DOMAIN vals : vals[m] < v})

CountUpTo(vals, v) == Cardinality({m \in DOMAIN vals : vals[m] <= v})

\* v is the value at index k of the ascending sort of vals.
IsRanked(vals, k, v) == CountBelow(vals, v) <= k /\ k < CountUpTo(vals, v)

\* C3: after a successful Ensemble ingestion, for every cell (x, y) and
\* step t, Dataset[(x*WIDTH + y)*STEPS + t] is 0.01 times the value at index
\* 13 of the ascending sort of the 20 member values at [member, t, y, x],
\* whatever the order of the members.
C3_EnsembleRank ==
    ingKind = "Ensemble" /\ ingStatus = "ok" =>
        \A x \in 0..(GridW - 1), y \in 0..(GridH - 1), t \in 0..(GridSteps - 1) :
            IsRanked(MembersAt(t, y, x), EnsRank, data[grid_offset(x, y) + t])

\* ------------------------------------------------------------ C11
\* The first token of the slice from the start slot on.
FirstToken == Tokenizer_next(slot, preds).tok

\* C11: if the first token at the start slot is Dry, of any length, the
\* Lexer emits it unchanged as the first Expr, Dry with exactly the token's
\* range, and it is never folded into a following Rain or Showers interval.
C11_LeadingDryVerbatim ==
    lexPc = "ready" /\ FirstToken.kind = "Dry" =>
        /\ out = <<>> => noneCalls = 0 /\ stash = FirstToken
        /\ out # <<>> =>
              /\ out[1] = Expr("Dry", FirstToken.start, FirstToken.end, 0)
              /\ via[1] = "stash"
        /\ \A i \in 2..Len(out) : out[i].start >= FirstToken.end

\* A single dry slot at the start, followed by showers it was kept out of.
C11_Witness ==
    /\ preds = <<0, 1, 0, 1>>
    /\ slot = 0
    /\ Len(out) = 2
    /\ out[1] = Expr("Dry", 0, 1, 0)
    /\ out[2] = Expr("Showers", 1, 4, 1)

\* ------------------------------------------------------------ C12
\* The slice ends with a single zero slot that follows rain, and the rain is
\* at or after the start slot.
TrailingDrySlot ==
    /\ Len(preds) >= 2
    /\ slot <= Len(preds) - 2
    /\ At(preds, Len(preds) - 1) = 0
    /\ At(preds, Len(preds) - 2) > 0

\* C12: if the slice ends with a single zero slot that follows rain, the
\* slot is not counted as a gap: the interval before it is emitted with its
\* end shrunk by one (it ends at len - 1) and without that gap, and the next
\* call emits Dry(len-1..len) as the last Expr.
C12_TrailingDryUnmerged ==
    TrailingDrySlot =>
        /\ \A k \in 1..Len(out) :
              out[k].kind \in {"Rain", "Showers"} =>
                  /\ out[k].end <= Len(preds) - 1
                  /\ out[k].gaps = ZerosIn(preds, out[k].start, out[k].end)
        /\ noneCalls > 0 =>
              /\ Len(out) >= 2
              /\ out[Len(out)] = Expr("Dry", Len(preds) - 1, Len(preds), 0)
              /\ via[Len(out)] = "stash"
              /\ out[Len(out) - 1].kind \in {"Rain", "Showers"}
              /\ out[Len(out) - 1].end = Len(preds) - 1
              /\ via[Len(out) - 1] = "flush"

\* Showers with one gap, then the trailing slot on its own, then None.
C12_Witness ==
    /\ preds = <<1, 0, 1, 0>>
    /\ slot = 0
    /\ noneCalls = 1
    /\ out = <<Expr("Showers", 0, 3, 1), Expr("Dry", 3, 4, 0)>>

\* ------------------------------------------------------------ C13
\* C13: for a slice of non-negative values and a start < len, the
\* Tokenizer emits non-empty half-open ranges that partition [start, len)
\* in increasing order, every index of a Rain token holds a strictly
\* positive value, every index of a Dry token holds exactly zero, and
\* adjacent tokens differ in class; for start >= len it emits nothing.
C13_TokensPartition ==
    lexPc = "tokenizer" =>
        /\ \A k \in 1..Len(tokens) :
              LET t == tokens[k] IN
              /\ t.kind \in {"Rain", "Dry"}
              /\ t.start < t.end
              /\ t.end <= Len(preds)
              /\ t.start = IF k = 1 THEN slot ELSE tokens[k - 1].end
              /\ \A i \in t.start..(t.end - 1) :
                    IF t.kind = "Rain" THEN At(preds, i) > 0 ELSE At(preds, i) = 0
              /\ k > 1 => t.kind # tokens[k - 1].kind
        /\ slot >= Len(preds) => tokens = <<>>
        /\ noneCalls > 0 /\ slot < Len(preds) =>
              /\ tokens # <<>>
              /\ tokens[Len(tokens)].end = Len(preds)

\* Four runs from slot 1 on, a long dry one among them, then None.
C13_Witness ==
    /\ preds = <<1, 1, 0, 0, 1, 0>>
    /\ slot = 1
    /\ noneCalls = 1
    /\ tokens = <<Token("Rain", 1, 2), Token("Dry", 2, 4),
                  Token("Rain", 4, 5), Token("Dry", 5, 6)>>

\* ------------------------------------------------------------ C14
\* C14: for any (start, slice) the Lexer yields at most len - start Exprs,
\* their ranges are strictly increasing and do not overlap, and once next()
\* has returned None every later call returns None again.
C14_FiniteOrderedFused ==
    lexPc = "ready" =>
        /\ Len(out) <= IF slot < Len(preds) THEN Len(preds) - slot ELSE 0
        /\ \A k \in 2..Len(out) :
              /\ out[k - 1].start < out[k].start
              /\ out[k - 1].end <= out[k].start
        /\ noneCalls > 0 =>
              Lexer_next(preds, tok_pos, merge_state, stash).ret.kind = "None"

\* As many Exprs as slots, and None returned twice.
C14_Witness ==
    /\ preds = <<0, 1, 0>>
    /\ slot = 0
    /\ Len(out) = 3
    /\ noneCalls = 2

\* ------------------------------------------------------------ C15
\* The entries most_recent_data_file chooses among.
Recognized ==
    {e \in dirEntries :
        guess(e) # "None" /\ (wantKind = "None" \/ wantKind = guess(e))}

\* The instant a recognized name embeds.
InstantOf(name) == parse_timestamp(guess(name), name)

\* Minutes from the year 0 to an instant, months and days taken at their
\* longest: later instants have more.
Minutes(ts) == (((ts.Y * 12 + (ts.M - 1)) * 31 + (ts.D - 1)) * 24 + ts.h) * 60 + ts.m

\* C15: for any set of recognized data filenames in a directory, with or
\* without a kind constraint, the file selected by most_recent_data_file is
\* the one whose embedded YYYYMMDDHHMM timestamp is chronologically latest.
C15_SelectsLatest ==
    fileRes.ok /\ (\A e \in Recognized : InstantOf(e).ok) =>
        \A e \in Recognized :
            Minutes(InstantOf(e).ts) <= Minutes(InstantOf(fileRes.file).ts)

Faulty == failWhat # "none" \/ ~parse_timestamp(ingKind, ingName).ok

\* C17: ingestion is all-or-nothing: if the timestamp fails to parse, or a
\* group image1..imageN or its image_data (Simple), or precip_intensity or
\* a time-slice read (Ensemble) is missing or fails, load returns an error
\* and no Dataset; a Dataset is returned only after all steps were written.
C17_AllOrNothing ==
    ingStatus # "idle" =>
        /\ Faulty => ingStatus # "ok"
        /\ Faulty /\ failAt = -1 => ingStatus \in {"new", "err"}
        /\ Faulty /\ ingStatus = "loading" => ingStep <= failAt
        /\ ingStatus # "ok" => ~loaded.some
        /\ ingStatus = "err" => data = <<>>
        /\ ingStatus = "ok" =>
              /\ loaded.some
              /\ loaded.created_at = parse_timestamp(ingKind, ingName).ts
              /\ ingStep = GridSteps
              /\ DOMAIN data = DOMAIN ZeroData

\* The image_data of the last group is missing: every step but the last was
\* written, and the error is all that is returned.
C17_Witness ==
    /\ ingKind = "Simple"
    /\ failWhat = "variable"
    /\ failAt = GridSteps - 1
    /\ ingStep = GridSteps - 1
    /\ ingStatus = "err"
    /\ ~loaded.some
    /\ data = <<>>

\* ------------------------------------------------------------ C18
\* C18: after initialization no query operation modifies the Dataset, the
\* postcode index or created_at, so under any interleaving of concurrent
\* requests each request gets the result it would get when run alone.
C18_QueriesReadOnly ==
    req # <<>> =>
        /\ <<fst, created_at, dataset>> = engine0
        /\ \A t \in Tasks :
              req[t].pc = "done" =>
                  req[t].res = render(engine0[1], engine0[2], engine0[3],
                                      req[t].q, req[t].now)

\* Two requests that read the same cell, one by postcode and one by
\* coordinates, both rendered.
C18_Witness ==
    /\ req # <<>>
    /\ req[1].pc = "done" /\ req[1].q.kind = "by_postcode" /\ req[1].res.status = "ok"
    /\ req[2].pc = "done" /\ req[2].q.kind = "by_lat_lon" /\ req[2].res.status = "ok"
    /\ req[1].start = req[2].start
    /\ req[1].res.exprs # <<>>

\* ------------------------------------------------------------ C19
\* The key the parser sees on an input: what precedes its first '='.
SeenKey(input) == split_once(input, EqSign).before

\* The input has no '=' at all, or the key before it is empty or begins
\* with '&'.
BadSegment(input) ==
    \/ \A i \in 1..Len(input) : input[i] # EqSign
    \/ SeenKey(input) = <<>>
    \/ Head(SeenKey(input)) = Amp

RECURSIVE Segments(_)
Segments(input) ==
    LET sp == split_once(input, Amp)
    IN  IF sp.some THEN <<sp.before>> \o Segments(sp.after) ELSE <<input>>

\* Every segment is key=value with a non-empty key (the key is what
\* precedes the first '=' and so holds no '=', the value what follows it).
WellFormed(input) ==
    /\ input # <<>>
    /\ \A k \in 1..Len(Segments(input)) :
          LET seg == Segments(input)[k]
          IN  split_once(seg, EqSign).some /\ split_once(seg, EqSign).before # <<>>

\* The pairs of a well-formed input, in order.
PairsOf(input) ==
    [k \in 1..Len(Segments(input)) |->
        OkItem(split_once(Segments(input)[k], EqSign).before,
               split_once(Segments(input)[k], EqSign).after)]

\* C20: for an input of n >= 1 segments key=value joined by single '&',
\* with non-empty keys that hold neither '=' nor '&' and values that hold
\* no '&', parse_qs yields the n pairs Ok((key_i, value_i)) in order and
\* then None.
C20_WellFormedPairs ==
    WellFormed(qsGiven) =>
        /\ Len(qsItems) <= Len(PairsOf(qsGiven))
        /\ \A k \in 1..Len(qsItems) : qsItems[k].item = PairsOf(qsGiven)[k]
        /\ qsNone > 0 => Len(qsItems) = Len(PairsOf(qsGiven))

\* Two pairs, the first with an empty value, then None.
C20_Witness ==
    /\ qsGiven = Bytes(<<"a", "=", "&", "b", "=">>)
    /\ Len(qsItems) = 2
    /\ qsItems[1].item = OkItem(Bytes(<<"a">>), <<>>)
    /\ qsItems[2].item = OkItem(Bytes(<<"b">>), <<>>)
    /\ qsNone = 1

\* ------------------------------------------------------------ C21
\* The four published corners (hdf5 geo_product_corners), as <<lat, lon>>
\* in microdegrees, and the pixel pair each is expected at.
CORNERS ==
    << <<49362064, 0>>, <<55973602, 0>>, <<55388973, 10856453>>,
       <<48895302, 9009300>> >>

CornerPixels == << <<0, HEIGHT>>, <<0, 0>>, <<WIDTH, 0>>, <<WIDTH, HEIGHT>> >>

\* C21: to_x_y maps the four published corners, in their order, exactly to
\* (0,HEIGHT), (0,0), (WIDTH,0) and (WIDTH,HEIGHT).
C21_CornersMatch ==
    \A i \in 1..4 :
        (lat = Fin(CORNERS[i][1]) /\ lon = Fin(CORNERS[i][2]) /\ transform_ok)
        => xyRes = [some |-> TRUE, x |-> CornerPixels[i][1],
                    y |-> CornerPixels[i][2]]

\* The last corner has been mapped, to (WIDTH, HEIGHT).
C21_Witness ==
    /\ lat = Fin(48895302)
    /\ lon = Fin(9009300)
    /\ transform_ok
    /\ xyRes = [some |-> TRUE, x |-> 700, y |-> 765]

\* ------------------------------------------------------------ C22
\* The grid cells (x, y) whose offset is o: for each column x the only
\* candidate row is o / STEPS - x * WIDTH.
CellsAt(o) ==
    { <<x, (o \div STEPS) - x * WIDTH>> : x \in 0..(WIDTH - 1) }
        \cap ((0..(WIDTH - 1)) \X (0..(HEIGHT - 1)))

\* C22: (x*WIDTH + y)*STEPS gives distinct offsets to distinct cells of
\* [0,WIDTH) x [0,HEIGHT): the slice to_offset returns for a cell is the
\* slice of no other cell.
C22_DistinctOffsets ==
    offRes.some =>
        CellsAt(offRes.offset)
            = { <<to_x_y(lat, lon, transform_ok).x, to_x_y(lat, lon, transform_ok).y>> }

\* ------------------------------------------------------------ C23
\* The dry runs of more than one slot the Tokenizer meets from the start
\* slot on, as <<start, end>>: maximal runs of zero slots, the first cut at
\* the start slot.
LongDryRuns ==
    { r \in (slot..Len(preds)) \X (slot..Len(preds)) :
        /\ r[2] - r[1] > 1
        /\ \A i \in r[1]..(r[2] - 1) : At(preds, i) = 0
        /\ r[1] = slot \/ At(preds, r[1] - 1) > 0
        /\ r[2] = Len(preds) \/ At(preds, r[2]) > 0 }

\* C23: a dry run of more than one slot is never folded into a Rain or
\* Showers interval; the Lexer emits it as Dry with exactly the range of the
\* Tokenizer's token, and when an accumulator is in progress the accumulator
\* is flushed first and the Dry is emitted by the call that follows.
C23_LongDryVerbatim ==
    lexPc = "ready" =>
        \A r \in LongDryRuns :
            /\ \A k \in 1..Len(out) :
                  /\ out[k].start < r[2] /\ r[1] < out[k].end =>
                        out[k] = Expr("Dry", r[1], r[2], 0)
                  /\ out[k] = Expr("Dry", r[1], r[2], 0) =>
                        /\ via[k] = "stash"
                        /\ r[1] > slot =>
                              /\ k > 1
                              /\ via[k - 1] = "flush"
                              /\ out[k - 1].kind \in {"Rain", "Showers"}
                              /\ out[k - 1].end = r[1]
            /\ (out # <<>> /\ out[Len(out)].end = r[1]) \/ (out = <<>> /\ r[1] = slot) =>
                  /\ stash = Token("Dry", r[1], r[2])
                  /\ Lexer_next(preds, tok_pos, merge_state, stash).ret
                        = Expr("Dry", r[1], r[2], 0)
            /\ noneCalls > 0 => \E k \in 1..Len(out) : out[k] = Expr("Dry", r[1], r[2], 0)

\* Rain flushed before a dry run of two slots, the run emitted whole by the
\* next call, and rain again.
C23_Witness ==
    /\ preds = <<1, 0, 1, 0, 0, 1>>
    /\ slot = 0
    /\ out = <<Expr("Showers", 0, 3, 1), Expr("Dry", 3, 5, 0), Expr("Rain", 5, 6, 0)>>
    /\ via = <<"flush", "stash", "flush">>

\* ------------------------------------------------------------ C24
\* C24: for any slice and any start < len, the ranges of the Exprs the
\* Lexer emits, in order, cover exactly [start, len): the first begins at
\* start, each next one begins where the previous ended, none is empty, and
\* the last ends at len.
C24_ExprsCover ==
    lexPc = "ready" /\ slot < Len(preds) =>
        /\ \A k \in 1..Len(out) :
              /\ out[k].start < out[k].end
              /\ out[k].start = IF k = 1 THEN slot ELSE out[k - 1].end
              /\ out[k].end <= Len(preds)
        /\ noneCalls > 0 =>
              /\ out # <<>>
              /\ out[Len(out)].end = Len(preds)

\* From slot 1 on: a leading dry slot, showers, a long dry run and rain up
\* to the end of the slice.
C24_Witness ==
    /\ preds = <<1, 0, 1, 0, 0, 1>>
    /\ slot = 1
    /\ noneCalls = 1
    /\ out = <<Expr("Dry", 1, 2, 0), Expr("Rain", 2, 3, 0),
               Expr("Dry", 3, 5, 0), Expr("Rain", 5, 6, 0)>>

\* ------------------------------------------------------------ C25
\* C25: consecutive Exprs of the Lexer alternate between Dry and non-Dry
\* (Rain or Showers); a Dry of one slot appears only as the first or as the
\* last Expr of the output; and every single dry slot with rain on both
\* sides, the start slot apart, lies inside a Showers.
C25_AlternatingKinds ==
    lexPc = "ready" =>
        /\ \A k \in 2..Len(out) :
              (out[k].kind = "Dry") # (out[k - 1].kind = "Dry")
        /\ \A k \in 1..Len(out) :
              out[k].kind = "Dry" /\ out[k].end - out[k].start = 1 =>
                  \/ k = 1
                  \/ /\ k = Len(out)
                     /\ out[k].end = Len(preds)
                     /\ Lexer_next(preds, tok_pos, merge_state, stash).ret.kind
                           = "None"
        /\ \A i \in (slot + 1)..(Len(preds) - 2), k \in 1..Len(out) :
              /\ At(preds, i) = 0
              /\ Isolated(preds, slot, Len(preds), i)
              /\ out[k].start <= i
              /\ i < out[k].end
              => out[k].kind = "Showers"

\* A single dry slot first, one absorbed in showers, and a single dry slot
\* last.
C25_Witness ==
    /\ preds = <<0, 1, 0, 1, 0>>
    /\ slot = 0
    /\ noneCalls = 1
    /\ out = <<Expr("Dry", 0, 1, 0), Expr("Showers", 1, 4, 1), Expr("Dry", 4, 5, 0)>>

\* ------------------------------------------------------------ C26
\* C26: the merge accumulator is seeded only by a Rain token, so into_expr
\* never returns Dry, and every flushed Rain or Showers range starts and
\* ends on a slot with a strictly positive value.
C26_SeededByRain ==
    lexPc = "ready" =>
        /\ ~seededDry
        /\ merge_state.some =>
              /\ At(preds, merge_state.start) > 0
              /\ into_expr(merge_state).kind # "Dry"
        /\ \A k \in 1..Len(out) :
              via[k] = "flush" =>
                  /\ out[k].kind \in {"Rain", "Showers"}
                  /\ At(preds, out[k].start) > 0
                  /\ At(preds, out[k].end - 1) > 0

\* After a leading dry slot and after a long dry run the accumulator was
\* seeded anew; the last flush gave up the trailing dry slot.
C26_Witness ==
    /\ preds = <<0, 1, 0, 0, 1, 0>>
    /\ slot = 0
    /\ noneCalls = 1
    /\ ~seededDry
    /\ via = <<"stash", "flush", "stash", "flush", "stash">>
    /\ out[2] = Expr("Rain", 1, 2, 0)
    /\ out[4] = Expr("Rain", 4, 5, 0)

\* ------------------------------------------------------------ C27
\* C27: into_expr classifies a flushed (range, gap_count): length 1 and
\* gap_count 1 give Dry(range); length 1 and gap_count 0 give Rain(range);
\* length > 1 and gap_count 0 give Rain(range); length > 1 and
\* gap_count > 0 give Showers{range, gaps: gap_count}.
C27_IntoExprTable ==
    lexPc = "into_expr" /\ out # <<>> =>
        LET len == merge_state.end - merge_state.start
            gap_count == merge_state.num_gaps
            start == merge_state.start
            end == merge_state.end
        IN  /\ len = 1 /\ gap_count = 1 => out[1] = Expr("Dry", start, end, 0)
            /\ len = 1 /\ gap_count = 0 => out[1] = Expr("Rain", start, end, 0)
            /\ len > 1 /\ gap_count = 0 => out[1] = Expr("Rain", start, end, 0)
            /\ len > 1 /\ gap_count > 0 =>
                  out[1] = Expr("Showers", start, end, gap_count)

\* A range of one slot with one gap has been flushed as Dry.
C27_Witness ==
    /\ lexPc = "into_expr"
    /\ merge_state.start = 2
    /\ merge_state.end = 3
    /\ merge_state.num_gaps = 1
    /\ out = <<Expr("Dry", 2, 3, 0)>>

\* ------------------------------------------------------------ C28
\* C28: for any slice, any start slot and any number of calls of
\* Lexer::next, calls after exhaustion included, both assertions that the
\* stash is empty hold, and undo_last_dry_merge neither takes num_gaps
\* below zero nor shrinks end to or below start.
C28_NoPanic ==
    lexPc = "ready" =>
        /\ ~lexPanic
        /\ ~Lexer_next(preds, tok_pos, merge_state, stash).panic
        /\ merge_state.some /\ undo_last_dry_merge(merge_state).undone =>
              /\ merge_state.num_gaps >= 1
              /\ merge_state.end - 1 > merge_state.start
        /\ \A k \in 2..Len(out) :
              \* out[k] is the slot undo_last_dry_merge gave back
              via[k - 1] = "flush" /\ via[k] = "stash"
                    /\ out[k].end - out[k].start = 1 =>
                  /\ out[k - 1].start < out[k - 1].end
                  /\ out[k - 1].end = out[k].start
                  /\ out[k - 1].gaps
                        = ZerosIn(preds, out[k - 1].start, out[k - 1].end)

\* The trailing slot was given back by undo_last_dry_merge, and next has
\* been called twice more after the output ended.
C28_Witness ==
    /\ preds = <<1, 0, 1, 0>>
    /\ slot = 0
    /\ out = <<Expr("Showers", 0, 3, 1), Expr("Dry", 3, 4, 0)>>
    /\ noneCalls = MaxNoneCalls
    /\ ~lexPanic

\* ------------------------------------------------------------ C29
\* The byte c occurs in str.
Contains(str, c) == \E i \in 1..Len(str) : str[i] = c

\* C29: every Ok((key, value)) parse_qs yields has a non-empty key that
\* holds neither '=' nor '&' and a value that holds no '&'.
C29_OkPairsClean ==
    \A k \in 1..Len(qsItems) :
        qsItems[k].item.kind = "Ok" =>
            /\ qsItems[k].item.key # <<>>
            /\ ~Contains(qsItems[k].item.key, EqSign)
            /\ ~Contains(qsItems[k].item.key, Amp)
            /\ ~Contains(qsItems[k].item.value, Amp)

\* ------------------------------------------------------------ C30
\* The listener is dropped once the signal has been observed.
ListenerDropped == svPc \in {"drain", "returned"} => ~listener /\ backlog = 0

\* With the signal ready in the accept loop, and after it has been
\* observed, no step accepts or spawns a connection.
NoAcceptAfterSignal ==
    (svPc = "loop" /\ sigReady) \/ svPc \in {"drain", "returned"} =>
        /\ spawned' = spawned
        /\ graceful' <= graceful

\* serve returns only on a branch of the second select! that is ready.
ReturnsWhenReady ==
    svPc = "drain" /\ svPc' = "returned" =>
        \/ graceful = 0 /\ returnedBy' = "graceful"
        \/ timer /\ returnedBy' = "timeout"

\* C30: in serve, when the shutdown signal and a pending accept are ready
\* together the shutdown branch wins; once the signal has been observed
\* the listener is dropped and no further connection is accepted or
\* spawned; and serve returns once every watched connection has finished
\* or the 5-second timer has fired, whichever comes first.
C30_ShutdownWins ==
    /\ []ListenerDropped
    /\ [][NoAcceptAfterSignal]_vars
    /\ [][ReturnsWhenReady]_vars
    /\ (svPc = "drain" /\ (graceful = 0 \/ timer)) ~> (svPc = "returned")
    /\ (svPc = "drain") ~> (svPc = "returned")

\* The signal won over a waiting connection, and serve returned on the
\* timer with a connection still running.
C30_Witness ==
    /\ svPc = "returned"
    /\ dropped >= 1
    /\ spawned >= 1
    /\ graceful >= 1
    /\ returnedBy = "timeout"

====
